---- MODULE Spec2Model ----
(***************************************************************************)
(* A model of the inFakt MCP server: the tool dispatcher (index.ts), the   *)
(* operation handlers (handlers/*.ts), the input validators                *)
(* (validation.ts), the remote client wrapper and its error translation    *)
(* (api-client.ts) and the currency conversion (config.ts).                *)
(*                                                                         *)
(* JavaScript values are tagged records.  A string is a sequence of        *)
(* tokens; a token is one character or an opaque run of letters.  A finite *)
(* number is kept in thousandths (n = 1000 * value), which is exact for    *)
(* every amount the JSON-level model handles; the binary64 arithmetic of   *)
(* the two scalar currency conversions is modelled bit by bit further      *)
(* down.  The message of an McpError is the message handed to its          *)
(* constructor.                                                            *)
(***************************************************************************)
EXTENDS Integers, Sequences, FiniteSets, TLC

(***************************************************************************)
(* JavaScript values                                                       *)
(***************************************************************************)
Undefined == [t |-> "undefined"]
Null == [t |-> "null"]
NaN == [t |-> "NaN"]
Infinity == [t |-> "Infinity"]
Bool(b) == [t |-> "boolean", b |-> b]
Milli(n) == [t |-> "number", n |-> n]
Num(k) == Milli(k * 1000)
Str(s) == [t |-> "string", s |-> s]
Arr(items) == [t |-> "array", items |-> items]
Obj(entries) == [t |-> "object", e |-> entries]
KV(k, v) == [k |-> k, v |-> v]

TypeOf(v) ==
  CASE v.t \in {"number", "NaN", "Infinity"} -> "number"
    [] v.t = "string" -> "string"
    [] v.t = "boolean" -> "boolean"
    [] v.t = "undefined" -> "undefined"
    [] v.t = "function" -> "function"
    [] OTHER -> "object"

IsArray(v) == v.t = "array"

IsFinite(v) == v.t = "number"

Truthy(v) ==
  CASE v.t \in {"undefined", "null", "NaN"} -> FALSE
    [] v.t = "boolean" -> v.b
    [] v.t = "number" -> v.n # 0
    [] v.t = "string" -> v.s # <<>>
    [] OTHER -> TRUE

HasKey(o, k) == o.t = "object" /\ \E i \in 1..Len(o.e) : o.e[i].k = k

\* o.k : the value of property k, undefined when o has no such property
Get(o, k) ==
  IF HasKey(o, k)
  THEN o.e[CHOOSE i \in 1..Len(o.e) : o.e[i].k = k].v
  ELSE Undefined

RECURSIVE Join(_, _)
\* Array.prototype.join over a sequence of strings (token sequences)
Join(strs, sep) ==
  IF strs = <<>> THEN <<>>
  ELSE IF Len(strs) = 1 THEN strs[1]
  ELSE strs[1] \o sep \o Join(Tail(strs), sep)

(***************************************************************************)
(* Tokens of strings                                                       *)
(***************************************************************************)
Digits == {"0", "1", "2", "3", "4", "5", "6", "7", "8", "9"}

DigitVal(c) ==
  CASE c = "0" -> 0 [] c = "1" -> 1 [] c = "2" -> 2 [] c = "3" -> 3
    [] c = "4" -> 4 [] c = "5" -> 5 [] c = "6" -> 6 [] c = "7" -> 7
    [] c = "8" -> 8 [] c = "9" -> 9

Whitespace == {" "}

\* String.prototype.trim().length === 0
TrimIsEmpty(s) == \A i \in 1..Len(s) : s[i] \in Whitespace

(***************************************************************************)
(* Errors.  NoError stands for "the assertion returned normally".          *)
(***************************************************************************)
NoError == [cls |-> "none"]

McpError(code, message) ==
  [cls |-> "McpError", code |-> code, field |-> <<>>, message |-> message]

\* new Error(message) and the engine's TypeError: not an McpError
PlainError(message) ==
  [cls |-> "Error", code |-> "none", field |-> <<>>, message |-> message]

ValidationErrorPrefix(field) == <<"Validation error for '">> \o field \o <<"': ">>

ValidationError(field, message) ==
  [cls |-> "ValidationError", code |-> "InvalidParams", field |-> field,
   message |-> ValidationErrorPrefix(field) \o message]

\* error instanceof McpError (ValidationError extends McpError)
IsMcpError(e) == e.cls \in {"McpError", "ValidationError"}

RECURSIVE FirstError(_)
\* the error of the first assertion, in program order, that throws
FirstError(errs) ==
  IF errs = <<>> THEN NoError
  ELSE IF Head(errs) # NoError THEN Head(errs)
  ELSE FirstError(Tail(errs))

(***************************************************************************)
(* validation.ts                                                           *)
(***************************************************************************)
validateRequiredString(value, fieldName) ==
  IF TypeOf(value) # "string" \/ TrimIsEmpty(value.s)
  THEN ValidationError(fieldName, <<"must be a non-empty string">>)
  ELSE NoError

validatePositiveNumber(value, fieldName) ==
  IF TypeOf(value) # "number" \/ ~IsFinite(value) \/ value.n <= 0
  THEN ValidationError(fieldName, <<"must be a positive number">>)
  ELSE NoError

validateNonNegativeNumber(value, fieldName) ==
  IF TypeOf(value) # "number" \/ ~IsFinite(value) \/ value.n < 0
  THEN ValidationError(fieldName, <<"must be a non-negative number">>)
  ELSE NoError

\* /^\d{4}-\d{2}-\d{2}$/
DateRegexTest(s) ==
  /\ Len(s) = 10
  /\ \A i \in {1, 2, 3, 4, 6, 7, 9, 10} : s[i] \in Digits
  /\ s[5] = "-" /\ s[8] = "-"

IsLeapYear(y) == (y % 4 = 0 /\ y % 100 # 0) \/ y % 400 = 0

DaysInMonth(y, m) ==
  IF m = 2 THEN (IF IsLeapYear(y) THEN 29 ELSE 28)
  ELSE IF m \in {4, 6, 9, 11} THEN 30 ELSE 31

DateYear(s) ==
  1000 * DigitVal(s[1]) + 100 * DigitVal(s[2]) + 10 * DigitVal(s[3]) + DigitVal(s[4])

DateMonth(s) == 10 * DigitVal(s[6]) + DigitVal(s[7])

DateDay(s) == 10 * DigitVal(s[9]) + DigitVal(s[10])

\* DateRoundTrips without the comparison of the components: new Date(value)
\* is not an Invalid Date, for an engine that takes any day up to 31
DateRoundTripsWithoutComparison(s) ==
  /\ DateMonth(s) \in 1..12
  /\ DateDay(s) \in 1..31

\* new Date(value) is a valid date whose UTC year, month and day are the
\* digits of value: a month outside 1..12 or a day outside 1..31 gives an
\* Invalid Date, a day past the end of the month either an Invalid Date or
\* a date of the following month.
DateRoundTrips(s) ==
  /\ DateMonth(s) \in 1..12
  /\ DateDay(s) \in 1..DaysInMonth(DateYear(s), DateMonth(s))

validateDateString(value, fieldName) ==
  IF TypeOf(value) # "string"
  THEN ValidationError(fieldName, <<"must be a string">>)
  ELSE IF ~DateRegexTest(value.s)
  THEN ValidationError(fieldName, <<"must be in YYYY-MM-DD format">>)
  ELSE IF ~DateRoundTrips(value.s)
  THEN ValidationError(fieldName, <<"is not a valid date">>)
  ELSE NoError

\* the number of hexadecimal digits of a token made of hexadecimal digits
\* only, 0 for any other token
HexLen(tok) ==
  CASE tok \in Digits -> 1
    [] tok \in {"e89b", "12d3", "a456", "E89B"} -> 4
    [] tok = "123e4567" -> 8
    [] tok = "426614174000" -> 12
    [] OTHER -> 0

RECURSIVE HexGroupEnd(_, _, _)
\* the index after a run of exactly n hexadecimal digits starting at token
\* i of s, 0 when there is none
HexGroupEnd(s, i, n) ==
  IF n = 0 THEN i
  ELSE IF i > Len(s) \/ HexLen(s[i]) = 0 \/ HexLen(s[i]) > n THEN 0
  ELSE HexGroupEnd(s, i + 1, n - HexLen(s[i]))

RECURSIVE UuidGroups(_, _, _)
UuidGroups(s, i, groups) ==
  LET j == HexGroupEnd(s, i, Head(groups)) IN
  IF j = 0 THEN FALSE
  ELSE IF Len(groups) = 1 THEN j = Len(s) + 1
  ELSE j <= Len(s) /\ s[j] = "-" /\ UuidGroups(s, j + 1, Tail(groups))

\* /^[0-9a-f]{8}-[0-9a-f]{4}-[0-9a-f]{4}-[0-9a-f]{4}-[0-9a-f]{12}$/i
UuidRegexTest(s) == UuidGroups(s, 1, <<8, 4, 4, 4, 12>>)

validateUUID(value, fieldName) ==
  IF TypeOf(value) # "string"
  THEN ValidationError(fieldName, <<"must be a string">>)
  ELSE IF ~UuidRegexTest(value.s)
  THEN ValidationError(fieldName, <<"is not a valid UUID">>)
  ELSE NoError

validateEnum(value, fieldName, allowedValues) ==
  IF TypeOf(value) # "string"
  THEN ValidationError(fieldName, <<"must be a string">>)
  ELSE IF \A i \in 1..Len(allowedValues) : allowedValues[i] # value.s
  THEN ValidationError(fieldName,
         <<"must be one of: ">> \o Join(allowedValues, <<", ">>))
  ELSE NoError

\* validateInvoiceService without the check of quantity
validateInvoiceServiceWithoutQuantity(value, index) ==
  IF ~Truthy(value) \/ TypeOf(value) # "object"
  THEN ValidationError(<<"services", "[", ToString(index), "]">>,
                       <<"must be an object">>)
  ELSE FirstError(<<
    validateRequiredString(Get(value, "name"), <<"name">>),
    IF Get(value, "tax_symbol") = Undefined
       \/ (TypeOf(Get(value, "tax_symbol")) # "string"
           /\ TypeOf(Get(value, "tax_symbol")) # "number")
    THEN ValidationError(<<"tax_symbol">>,
           <<"is required and must be a string or number">>)
    ELSE NoError,
    IF Get(value, "net_price") # Undefined
    THEN validateNonNegativeNumber(Get(value, "net_price"), <<"net_price">>)
    ELSE NoError,
    IF Get(value, "unit_net_price") # Undefined
    THEN validateNonNegativeNumber(Get(value, "unit_net_price"), <<"unit_net_price">>)
    ELSE NoError,
    IF Get(value, "gross_price") # Undefined
    THEN validateNonNegativeNumber(Get(value, "gross_price"), <<"gross_price">>)
    ELSE NoError,
    IF /\ Get(value, "net_price") = Undefined
       /\ Get(value, "unit_net_price") = Undefined
       /\ Get(value, "gross_price") = Undefined
    THEN ValidationError(<<"services">>,
           <<"each service must have at least one of: net_price, unit_net_price, or gross_price">>)
    ELSE NoError >>)

validateInvoiceService(value, index) ==
  IF ~Truthy(value) \/ TypeOf(value) # "object"
  THEN ValidationError(<<"services", "[", ToString(index), "]">>,
                       <<"must be an object">>)
  ELSE FirstError(<<
    validateRequiredString(Get(value, "name"), <<"name">>),
    IF Get(value, "tax_symbol") = Undefined
       \/ (TypeOf(Get(value, "tax_symbol")) # "string"
           /\ TypeOf(Get(value, "tax_symbol")) # "number")
    THEN ValidationError(<<"tax_symbol">>,
           <<"is required and must be a string or number">>)
    ELSE NoError,
    IF Get(value, "net_price") # Undefined
    THEN validateNonNegativeNumber(Get(value, "net_price"), <<"net_price">>)
    ELSE NoError,
    IF Get(value, "unit_net_price") # Undefined
    THEN validateNonNegativeNumber(Get(value, "unit_net_price"), <<"unit_net_price">>)
    ELSE NoError,
    IF Get(value, "gross_price") # Undefined
    THEN validateNonNegativeNumber(Get(value, "gross_price"), <<"gross_price">>)
    ELSE NoError,
    IF Get(value, "quantity") # Undefined
    THEN validatePositiveNumber(Get(value, "quantity"), <<"quantity">>)
    ELSE NoError,
    IF /\ Get(value, "net_price") = Undefined
       /\ Get(value, "unit_net_price") = Undefined
       /\ Get(value, "gross_price") = Undefined
    THEN ValidationError(<<"services">>,
           <<"each service must have at least one of: net_price, unit_net_price, or gross_price">>)
    ELSE NoError >>)

\* error.message.replace(`Validation error for '${error.field}': `, "")
ReplacePrefix(message, prefix) ==
  IF Len(message) >= Len(prefix) /\ SubSeq(message, 1, Len(prefix)) = prefix
  THEN SubSeq(message, Len(prefix) + 1, Len(message))
  ELSE message

\* validateArray(value, fieldName, validateInvoiceService): the only item
\* validator any handler passes
validateArray(value, fieldName) ==
  IF ~IsArray(value)
  THEN ValidationError(fieldName, <<"must be an array">>)
  ELSE IF Len(value.items) = 0
  THEN ValidationError(fieldName, <<"must not be empty">>)
  ELSE LET bad == {i \in 1..Len(value.items) :
                     validateInvoiceService(value.items[i], i - 1) # NoError} IN
       IF bad = {} THEN NoError
       ELSE LET i == CHOOSE j \in bad : \A k \in bad : j <= k
                error == validateInvoiceService(value.items[i], i - 1) IN
            ValidationError(
              fieldName \o <<"[", ToString(i - 1), "]", ".">> \o error.field,
              ReplacePrefix(error.message, ValidationErrorPrefix(error.field)))

\* validatePaginationParams without the cap on limit
validatePaginationParamsWithoutCap(params) ==
  FirstError(<<
    IF Get(params, "offset") # Undefined
    THEN validateNonNegativeNumber(Get(params, "offset"), <<"offset">>)
    ELSE NoError,
    IF Get(params, "limit") # Undefined
    THEN validatePositiveNumber(Get(params, "limit"), <<"limit">>)
    ELSE NoError >>)

validatePaginationParams(params) ==
  FirstError(<<
    IF Get(params, "offset") # Undefined
    THEN validateNonNegativeNumber(Get(params, "offset"), <<"offset">>)
    ELSE NoError,
    IF Get(params, "limit") # Undefined
    THEN validatePositiveNumber(Get(params, "limit"), <<"limit">>)
    ELSE NoError,
    IF Get(params, "limit") # Undefined /\ IsFinite(Get(params, "limit"))
       /\ Get(params, "limit").n > 100 * 1000
    THEN ValidationError(<<"limit">>, <<"must not exceed 100">>)
    ELSE NoError >>)

\* sanitizeParams: the entries whose value is neither undefined nor null
sanitizeParams(params) ==
  Obj(SelectSeq(params.e, LAMBDA kv : kv.v # Undefined /\ kv.v # Null))

(***************************************************************************)
(* JSON.stringify and string conversion                                    *)
(***************************************************************************)
Pad3(k) ==
  IF k < 10 THEN <<"0", "0", ToString(k)>>
  ELSE IF k < 100 THEN <<"0", ToString(k)>>
  ELSE <<ToString(k)>>

\* Number.prototype.toString of a finite number kept in thousandths
NumberToString(n) ==
  LET a == IF n < 0 THEN 0 - n ELSE n
      sign == IF n < 0 THEN <<"-">> ELSE <<>>
      frac == a % 1000
  IN sign \o <<ToString(a \div 1000)>> \o
     (IF frac = 0 THEN <<>>
      ELSE IF frac % 100 = 0 THEN <<".", ToString(frac \div 100)>>
      ELSE IF frac % 10 = 0 THEN <<".">> \o Tail(Pad3(frac \div 10))
      ELSE <<".">> \o Pad3(frac))

RECURSIVE JSONStringify(_)
RECURSIVE StringifyEntries(_, _)
RECURSIVE StringifyItems(_, _)
\* JSON.stringify(value); indentation is not modelled and a string is
\* wrapped in quotes without escaping
JSONStringify(v) ==
  CASE v.t = "null" -> <<"null">>
    [] v.t \in {"NaN", "Infinity"} -> <<"null">>
    [] v.t = "boolean" -> IF v.b THEN <<"true">> ELSE <<"false">>
    [] v.t = "number" -> NumberToString(v.n)
    [] v.t = "string" -> <<"\"">> \o v.s \o <<"\"">>
    [] v.t = "array" -> <<"[">> \o StringifyItems(v.items, TRUE) \o <<"]">>
    [] v.t = "object" -> <<"{">> \o StringifyEntries(v.e, TRUE) \o <<"}">>
    [] OTHER -> <<>>

StringifyItems(items, first) ==
  IF items = <<>> THEN <<>>
  ELSE (IF first THEN <<>> ELSE <<",">>)
       \o (IF Head(items).t \in {"undefined", "function"} THEN <<"null">>
           ELSE JSONStringify(Head(items)))
       \o StringifyItems(Tail(items), FALSE)

StringifyEntries(entries, first) ==
  IF entries = <<>> THEN <<>>
  ELSE IF Head(entries).v.t \in {"undefined", "function"}
  THEN StringifyEntries(Tail(entries), first)
  ELSE (IF first THEN <<>> ELSE <<",">>)
       \o <<"\"", Head(entries).k, "\"", ":">> \o JSONStringify(Head(entries).v)
       \o StringifyEntries(Tail(entries), FALSE)

\* the string an element contributes to Array.prototype.join
JoinItemString(v) ==
  CASE v.t = "string" -> v.s
    [] v.t \in {"null", "undefined"} -> <<>>
    [] v.t = "number" -> NumberToString(v.n)
    [] v.t = "boolean" -> IF v.b THEN <<"true">> ELSE <<"false">>
    [] v.t = "NaN" -> <<"NaN">>
    [] v.t = "Infinity" -> <<"Infinity">>
    [] OTHER -> <<"[object Object]">>

(***************************************************************************)
(* api-client.ts: error translation                                        *)
(***************************************************************************)
\* an axios error: a response with a status outside 200..299 and a decoded
\* body, or no response at all (network failure, timeout)
AxiosError(hasResponse, status, data, message) ==
  [cls |-> "AxiosError", hasResponse |-> hasResponse, status |-> status,
   data |-> data, message |-> message]

\* error.response?.status, 0 standing for undefined
ResponseStatus(error) == IF error.hasResponse THEN error.status ELSE 0

\* error.response?.data
ResponseData(error) == IF error.hasResponse THEN error.data ELSE Undefined

StatusMessage(status) ==
  CASE status = 400 -> <<"Bad request: Invalid parameters">>
    [] status = 401 -> <<"Unauthorized: Invalid or missing API key">>
    [] status = 403 -> <<"Forbidden: Insufficient permissions">>
    [] status = 404 -> <<"Not found: Resource does not exist">>
    [] status = 422 -> <<"Unprocessable entity: Validation failed">>
    [] status = 429 -> <<"Too many requests: Rate limit exceeded">>
    [] status = 500 -> <<"Internal server error">>
    [] status = 503 -> <<"Service unavailable: API is temporarily down">>
    [] OTHER -> <<"API error: ", ToString(status)>>

\* extractErrorMessage looking at the error field before the message field
extractErrorMessageErrorFirst(error) ==
  LET status == ResponseStatus(error)
      data == ResponseData(error)
  IN IF status = 0
     THEN (IF error.message # <<>> THEN error.message
           ELSE <<"Network error occurred">>)
     ELSE IF Truthy(data) /\ TypeOf(data) = "object"
               /\ TypeOf(Get(data, "error")) = "string"
     THEN Get(data, "error").s
     ELSE IF Truthy(data) /\ TypeOf(data) = "object"
               /\ TypeOf(Get(data, "message")) = "string"
     THEN Get(data, "message").s
     ELSE IF Truthy(data) /\ TypeOf(data) = "object"
               /\ TypeOf(Get(data, "errors")) = "string"
     THEN Get(data, "errors").s
     ELSE IF Truthy(data) /\ TypeOf(data) = "object"
               /\ IsArray(Get(data, "errors"))
               /\ Len(Get(data, "errors").items) > 0
     THEN Join([i \in 1..Len(Get(data, "errors").items) |->
                  JoinItemString(Get(data, "errors").items[i])], <<", ">>)
     ELSE StatusMessage(status)

extractErrorMessage(error) ==
  LET status == ResponseStatus(error)
      data == ResponseData(error)
  IN IF status = 0
     THEN (IF error.message # <<>> THEN error.message
           ELSE <<"Network error occurred">>)
     ELSE IF Truthy(data) /\ TypeOf(data) = "object"
               /\ TypeOf(Get(data, "message")) = "string"
     THEN Get(data, "message").s
     ELSE IF Truthy(data) /\ TypeOf(data) = "object"
               /\ TypeOf(Get(data, "error")) = "string"
     THEN Get(data, "error").s
     ELSE IF Truthy(data) /\ TypeOf(data) = "object"
               /\ TypeOf(Get(data, "errors")) = "string"
     THEN Get(data, "errors").s
     ELSE IF Truthy(data) /\ TypeOf(data) = "object"
               /\ IsArray(Get(data, "errors"))
               /\ Len(Get(data, "errors").items) > 0
     THEN Join([i \in 1..Len(Get(data, "errors").items) |->
                  JoinItemString(Get(data, "errors").items[i])], <<", ">>)
     ELSE StatusMessage(status)

\* AxiosErrorCode without the branch for 404
AxiosErrorCodeWithout404(status) ==
  IF status = 400 \/ status = 422 THEN "InvalidParams"
  ELSE IF status = 401 \/ status = 403 THEN "InvalidRequest"
  ELSE "InternalError"

\* the MCP error code handleApiError gives an axios error
AxiosErrorCode(status) ==
  IF status = 400 \/ status = 422 THEN "InvalidParams"
  ELSE IF status = 401 \/ status = 403 THEN "InvalidRequest"
  ELSE IF status = 404 THEN "InvalidRequest"
  ELSE "InternalError"

\* the error handleApiError throws
handleApiError(error) ==
  IF IsMcpError(error) THEN error
  ELSE IF error.cls = "AxiosError"
  THEN McpError(AxiosErrorCode(ResponseStatus(error)),
         <<"inFakt API error (">>
         \o (IF ResponseStatus(error) = 0 THEN <<"unknown">>
             ELSE <<ToString(ResponseStatus(error))>>)
         \o <<"): ">> \o extractErrorMessage(error)
         \o (IF Truthy(ResponseData(error))
             THEN <<"\nDetails: ">> \o JSONStringify(ResponseData(error))
             ELSE <<>>))
  ELSE McpError("InternalError", <<"Unexpected error: ">> \o error.message)

\* what handleApiError writes to the diagnostic channel
handleApiErrorLog(error) ==
  IF IsMcpError(error) THEN <<>>
  ELSE IF error.cls = "AxiosError"
  THEN << <<"InfaktAPI Error:">> \o extractErrorMessage(error) >>
  ELSE << <<"Unexpected error:">> \o error.message >>

(***************************************************************************)
(* config.ts: currency conversion of JSON-level values                     *)
(***************************************************************************)
MONETARY_FIELDS ==
  {"net_price", "gross_price", "tax_price", "unit_net_price",
   "unit_gross_price", "price", "amount", "total", "value"}

RECURSIVE DigitRunEnd(_, _)
\* the index after the longest run of digit tokens of s that starts at i
DigitRunEnd(s, i) ==
  IF i <= Len(s) /\ s[i] \in Digits THEN DigitRunEnd(s, i + 1) ELSE i

RECURSIVE DigitRunValue(_, _, _)
\* the number written by the digit tokens s[i], ..., s[j - 1]
DigitRunValue(s, i, j) ==
  IF i >= j THEN 0
  ELSE 10 * DigitRunValue(s, i, j - 1) + DigitVal(s[j - 1])

RECURSIVE SkipWhitespace(_, _)
SkipWhitespace(s, i) ==
  IF i <= Len(s) /\ s[i] \in Whitespace THEN SkipWhitespace(s, i + 1) ELSE i

\* parseFloat(string): leading whitespace, a sign, digits, a fraction; what
\* follows the longest numeric prefix is ignored.  Exponents are not
\* modelled and a fraction is read to three digits.
parseFloat(s) ==
  LET i0 == SkipWhitespace(s, 1)
      neg == i0 <= Len(s) /\ s[i0] = "-"
      i1 == IF i0 <= Len(s) /\ s[i0] \in {"-", "+"} THEN i0 + 1 ELSE i0
      i2 == DigitRunEnd(s, i1)
      hasDot == i2 <= Len(s) /\ s[i2] = "."
      i3 == IF hasDot THEN DigitRunEnd(s, i2 + 1) ELSE i2
      fracLen == IF hasDot THEN i3 - (i2 + 1) ELSE 0
      fracEnd == IF fracLen > 3 THEN i2 + 4 ELSE i3
      frac == IF ~hasDot \/ fracLen = 0 THEN 0
              ELSE DigitRunValue(s, i2 + 1, fracEnd)
                   * (IF fracLen = 1 THEN 100 ELSE IF fracLen = 2 THEN 10 ELSE 1)
      whole == DigitRunValue(s, i1, i2)
      abs == 1000 * whole + frac
  IN IF i1 <= Len(s) /\ s[i1] = "Infinity" THEN Infinity
     ELSE IF i2 = i1 /\ fracLen = 0 THEN NaN
     ELSE Milli(IF neg THEN 0 - abs ELSE abs)

\* Math.round of a finite number kept in thousandths: the nearest integer,
\* a tie going up
MathRound(n) == ((n + 500) \div 1000) * 1000

groszeToPLN(grosze) ==
  LET value == IF TypeOf(grosze) = "string" THEN parseFloat(grosze.s) ELSE grosze
  IN IF value.t = "number" THEN Milli(MathRound(value.n) \div 100) ELSE value

RECURSIVE convertAllMonetaryFields(_)
RECURSIVE ConvertEntry(_)
\* ConvertEntry writing the converted value to obj[key] as well
ConvertEntryInPlace(kv) ==
  IF kv.k \in MONETARY_FIELDS
  THEN LET entry == KV(kv.k, IF TypeOf(kv.v) = "number" \/ TypeOf(kv.v) = "string"
                              THEN groszeToPLN(kv.v) ELSE kv.v) IN
       [data |-> entry, converted |-> entry]
  ELSE LET r == convertAllMonetaryFields(kv.v) IN
       [data |-> KV(kv.k, r.data), converted |-> KV(kv.k, r.result)]

\* One iteration of the loop over Object.entries(obj).  data is the entry
\* of obj after the iteration (the loop assigns to `converted` only),
\* converted is the entry the iteration adds to `converted`.
ConvertEntry(kv) ==
  IF kv.k \in MONETARY_FIELDS
  THEN [data |-> kv,
        converted |-> KV(kv.k, IF TypeOf(kv.v) = "number" \/ TypeOf(kv.v) = "string"
                                THEN groszeToPLN(kv.v) ELSE kv.v)]
  ELSE LET r == convertAllMonetaryFields(kv.v) IN
       [data |-> KV(kv.k, r.data), converted |-> KV(kv.k, r.result)]

\* data is the argument as the call leaves it, result is the returned value
convertAllMonetaryFields(data) ==
  IF data = Null \/ data = Undefined THEN [data |-> data, result |-> data]
  ELSE IF IsArray(data)
  THEN LET r == [i \in 1..Len(data.items) |-> convertAllMonetaryFields(data.items[i])] IN
       [data |-> Arr([i \in 1..Len(data.items) |-> r[i].data]),
        result |-> Arr([i \in 1..Len(data.items) |-> r[i].result])]
  ELSE IF data.t = "object"
  THEN LET r == [i \in 1..Len(data.e) |-> ConvertEntry(data.e[i])] IN
       [data |-> Obj([i \in 1..Len(data.e) |-> r[i].data]),
        result |-> Obj([i \in 1..Len(data.e) |-> r[i].converted])]
  ELSE [data |-> data, result |-> data]

(***************************************************************************)
(* config.ts: groszeToPLN and plnToGrosze in IEEE 754 binary64             *)
(*                                                                         *)
(* A natural number is its sequence of bits, least significant first,      *)
(* with no leading zero bit (zero is the empty sequence).  A non-negative  *)
(* double is [m, e], the number m * 2^e, with m odd or zero.  Division and *)
(* multiplication round to nearest, ties to even, at 53 significant bits.  *)
(***************************************************************************)
RECURSIVE BitsOf(_)
BitsOf(n) == IF n = 0 THEN <<>> ELSE <<n % 2>> \o BitsOf(n \div 2)

\* without leading zero bits
Canon(a) ==
  LET ones == {i \in 1..Len(a) : a[i] = 1} IN
  IF ones = {} THEN <<>>
  ELSE SubSeq(a, 1, CHOOSE i \in ones : \A j \in ones : j <= i)

ShiftLeft(a, k) ==
  IF a = <<>> THEN <<>>
  ELSE [i \in 1..(Len(a) + k) |-> IF i <= k THEN 0 ELSE a[i - k]]

ShiftRight(a, k) == IF Len(a) <= k THEN <<>> ELSE SubSeq(a, k + 1, Len(a))

BitAt(a, i) == IF i <= Len(a) THEN a[i] ELSE 0

\* the number written by bits 8j-7, ..., 8j of a
LimbAt(a, j) ==
  BitAt(a, 8 * j - 7) + 2 * BitAt(a, 8 * j - 6) + 4 * BitAt(a, 8 * j - 5)
  + 8 * BitAt(a, 8 * j - 4) + 16 * BitAt(a, 8 * j - 3) + 32 * BitAt(a, 8 * j - 2)
  + 64 * BitAt(a, 8 * j - 1) + 128 * BitAt(a, 8 * j)

\* the eight bits of v < 256
LimbBits(v) ==
  <<v % 2, (v \div 2) % 2, (v \div 4) % 2, (v \div 8) % 2,
    (v \div 16) % 2, (v \div 32) % 2, (v \div 64) % 2, (v \div 128) % 2>>

Limbs(a) == (Len(a) + 7) \div 8

RECURSIVE AddLimbs(_, _, _, _, _)
\* limbs j..n of a + b given the carry into limb j, then the carry out
AddLimbs(a, b, j, n, c) ==
  IF j > n THEN <<c>>
  ELSE LimbBits((LimbAt(a, j) + LimbAt(b, j) + c) % 256)
       \o AddLimbs(a, b, j + 1, n, (LimbAt(a, j) + LimbAt(b, j) + c) \div 256)

BitsAdd(a, b) ==
  Canon(AddLimbs(a, b, 1, IF Len(a) >= Len(b) THEN Limbs(a) ELSE Limbs(b), 0))

\* 100 = 64 + 32 + 4
BitsTimes100(a) ==
  BitsAdd(BitsAdd(ShiftLeft(a, 6), ShiftLeft(a, 5)), ShiftLeft(a, 2))

RECURSIVE DivBy100(_, _, _)
\* long division by 100 of limbs j, ..., 1 of a, most significant first,
\* given the remainder so far: the quotient bits and the remainder
DivBy100(a, j, rem) ==
  IF j = 0 THEN [q |-> <<>>, r |-> rem]
  ELSE LET rest == DivBy100(a, j - 1, (256 * rem + LimbAt(a, j)) % 100)
       IN [q |-> rest.q \o LimbBits((256 * rem + LimbAt(a, j)) \div 100),
           r |-> rest.r]

\* the double m * 2^e with m made odd
Double(m, e) ==
  LET ones == {i \in 1..Len(m) : m[i] = 1} IN
  IF ones = {} THEN [m |-> <<>>, e |-> 0]
  ELSE LET first == CHOOSE i \in ones : \A j \in ones : i <= j IN
       [m |-> Canon(SubSeq(m, first, Len(m))), e |-> e + first - 1]

\* the double nearest to (n + f) * 2^e, where 0 <= f < 1 and sticky tells
\* whether f > 0; n has more than 53 bits whenever sticky holds
RoundToDouble(n, e, sticky) ==
  IF Len(n) <= 53 THEN Double(n, e)
  ELSE LET d == Len(n) - 53
           kept == ShiftRight(n, d)
           half == n[d] = 1
           below == sticky \/ \E i \in 1..(d - 1) : n[i] = 1
           up == half /\ (below \/ kept[1] = 1)
       IN Double(IF up THEN BitsAdd(kept, <<1>>) ELSE kept, e + d)

\* the double nearest to the quotient qr.q with remainder qr.r, times 2^e
QuotientToDouble(qr, e) == RoundToDouble(Canon(qr.q), e, qr.r # 0)

\* x / 100
DoubleDiv100(x) ==
  IF x.m = <<>> THEN x
  ELSE QuotientToDouble(DivBy100(ShiftLeft(x.m, 64), Limbs(x.m) + 8, 0), x.e - 64)

\* x * 100
DoubleTimes100(x) ==
  IF x.m = <<>> THEN x ELSE RoundToDouble(BitsTimes100(x.m), x.e, FALSE)

\* Math.round(x) for x >= 0: floor(x + 0.5), computed exactly
DoubleRound(x) ==
  IF x.e >= 0 THEN x
  ELSE Double(ShiftRight(BitsAdd(x.m, ShiftLeft(<<1>>, (0 - x.e) - 1)), 0 - x.e), 0)

\* the integer m * 2^e, e >= 0, as a double
DoubleOfInt(m, e) == Double(ShiftLeft(m, e), 0)

\* groszeToPLN(grosze) for a number grosze >= 0
groszeToPLN64(grosze) == DoubleDiv100(DoubleRound(grosze))

\* plnToGrosze(pln) for pln >= 0
plnToGrosze64(pln) == DoubleRound(DoubleTimes100(pln))

(***************************************************************************)
(* Operation handlers.  A handler is the sequence of its steps in program  *)
(* order: an argument check (the error it throws, NoError when it passes), *)
(* the remote request it awaits, the response it returns.                  *)
(***************************************************************************)
NoRequest == [method |-> "none"]

Check(err) == [kind |-> "check", err |-> err, req |-> NoRequest, shape |-> "none", text |-> <<>>]

\* a request whose body went through the unit conversion
RequestConvertingBody(method, url, body, query) ==
  [kind |-> "request", err |-> NoError,
   req |-> [method |-> method, url |-> url,
            body |-> convertAllMonetaryFields(body).result, params |-> query],
   shape |-> "none", text |-> <<>>]

\* apiClient.get / post / put / delete / getBinary (url, data, {params})
Request(method, url, body, query) ==
  [kind |-> "request", err |-> NoError,
   req |-> [method |-> method, url |-> url, body |-> body, params |-> query],
   shape |-> "none", text |-> <<>>]

\* return createJsonResponse(response) and the like
Respond(shape, text) ==
  [kind |-> "respond", err |-> NoError, req |-> NoRequest, shape |-> shape, text |-> text]

PAYMENT_METHODS ==
  << <<"cash">>, <<"transfer">>, <<"card">>, <<"barter">>, <<"check">>,
     <<"bill_of_sale">>, <<"delivery">>, <<"compensation">>, <<"accredited">>,
     <<"paypal">>, <<"payu">>, <<"tpay">>, <<"przelewy24">>, <<"dotpay">>,
     <<"other">> >>

INVOICE_STATUSES == << <<"draft">>, <<"paid">>, <<"printed">>, <<"sent">> >>

DOCUMENT_TYPES ==
  << <<"original">>, <<"copy">>, <<"original_copy">>, <<"duplicate">>,
     <<"original_duplicate">>, <<"copy_duplicate">>, <<"regular">>,
     <<"double_regular">> >>

LOCALES == << <<"pl">>, <<"en">>, <<"pe">> >>

BUSINESS_ACTIVITY_KINDS == << <<"company">>, <<"self_employed">>, <<"private_person">> >>

\* `validate(params.key, "key")` when params.key !== undefined
IfDefined(value, err) == IF value # Undefined THEN err ELSE NoError

\* { key: params.key, ... } for the keys listed
Pick(params, keys) == Obj([i \in 1..Len(keys) |-> KV(keys[i], Get(params, keys[i]))])

\* params itself taken for the rest
RestKeepingKey(params, key) == params

\* const { key, ...rest } = params
Rest(params, key) == Obj(SelectSeq(params.e, LAMBDA kv : kv.k # key))

\* queryParams.q = filters, whether or not filters has a key
WithFiltersAlways(queryParams, filters) == Obj(Append(queryParams.e, KV("q", filters)))

\* queryParams.q = filters when filters has a key
WithFilters(queryParams, filters) ==
  IF Len(filters.e) > 0 THEN Obj(Append(queryParams.e, KV("q", filters)))
  ELSE queryParams

\* filters.<name> = params.<key>, set whenever params.<key> is defined
FilterWhenDefined(params, key, name) ==
  IF Get(params, key) # Undefined THEN <<KV(name, Get(params, key))>> ELSE <<>>

\* filters.<name> = params.<key>, set when params.<key> is truthy
Filter(params, key, name) ==
  IF Truthy(Get(params, key)) THEN <<KV(name, Get(params, key))>> ELSE <<>>

\* a check that runs when params.<key> is truthy
IfTruthy(value, err) == IF Truthy(value) THEN err ELSE NoError

\* createInvoice with its checks of paid_date left out
paidDateChecksLeftOut(params) == <<>>

\* createInvoice's checks of paid_date, made when status is 'paid'
paidDateChecks(params) == <<
  Check(IF Get(params, "status") = Str(<<"paid">>) /\ ~Truthy(Get(params, "paid_date"))
        THEN PlainError(<<"paid_date is required when status is 'paid'">>)
        ELSE NoError),
  Check(IF Get(params, "status") = Str(<<"paid">>)
        THEN validateDateString(Get(params, "paid_date"), <<"paid_date">>)
        ELSE NoError) >>

\* createInvoice with the request issued ahead of the checks of the dates
createInvoiceRequestingEarly(params) == <<
  Check(validateRequiredString(Get(params, "client_company_name"), <<"client_company_name">>)),
  Check(validateRequiredString(Get(params, "payment_method"), <<"payment_method">>)),
  Check(validateEnum(Get(params, "payment_method"), <<"payment_method">>, PAYMENT_METHODS)),
  Check(IF ~Truthy(Get(params, "services"))
        THEN PlainError(<<"services is required">>) ELSE NoError),
  Check(validateArray(Get(params, "services"), <<"services">>)),
  Request("POST", <<"/async/invoices.json">>, Obj(<<KV("invoice", params)>>), Undefined),
  Check(IfDefined(Get(params, "status"),
          validateEnum(Get(params, "status"), <<"status">>, INVOICE_STATUSES))),
  Check(IfDefined(Get(params, "payment_date"),
          validateDateString(Get(params, "payment_date"), <<"payment_date">>))),
  Respond("json_converted", <<>>) >>

createInvoice(params) == <<
  Check(validateRequiredString(Get(params, "client_company_name"), <<"client_company_name">>)),
  Check(validateRequiredString(Get(params, "payment_method"), <<"payment_method">>)),
  Check(validateEnum(Get(params, "payment_method"), <<"payment_method">>, PAYMENT_METHODS)),
  Check(IF ~Truthy(Get(params, "services"))
        THEN PlainError(<<"services is required">>) ELSE NoError),
  Check(validateArray(Get(params, "services"), <<"services">>)),
  Check(IfDefined(Get(params, "status"),
          validateEnum(Get(params, "status"), <<"status">>, INVOICE_STATUSES))) >>
  \o paidDateChecks(params) \o <<
  Check(IfDefined(Get(params, "invoice_date"),
          validateDateString(Get(params, "invoice_date"), <<"invoice_date">>))),
  Check(IfDefined(Get(params, "sale_date"),
          validateDateString(Get(params, "sale_date"), <<"sale_date">>))),
  Check(IfDefined(Get(params, "payment_date"),
          validateDateString(Get(params, "payment_date"), <<"payment_date">>))),
  Request("POST", <<"/async/invoices.json">>, Obj(<<KV("invoice", params)>>), Undefined),
  Respond("json_converted", <<>>) >>

\* checkInvoiceStatus reading the status a second time
checkInvoiceStatusPolling(params) == <<
  Check(validateRequiredString(Get(params, "task_reference_number"),
                               <<"task_reference_number">>)),
  Request("GET", <<"/async/invoices/status/">>
                 \o JoinItemString(Get(params, "task_reference_number"))
                 \o <<".json">>, Undefined, Undefined),
  Request("GET", <<"/async/invoices/status/">>
                 \o JoinItemString(Get(params, "task_reference_number"))
                 \o <<".json">>, Undefined, Undefined),
  Respond("json_converted", <<>>) >>

checkInvoiceStatus(params) == <<
  Check(validateRequiredString(Get(params, "task_reference_number"),
                               <<"task_reference_number">>)),
  Request("GET", <<"/async/invoices/status/">>
                 \o JoinItemString(Get(params, "task_reference_number"))
                 \o <<".json">>, Undefined, Undefined),
  Respond("json_converted", <<>>) >>

listInvoices(params) == <<
  Check(validatePaginationParams(params)),
  Check(IfTruthy(Get(params, "number"),
          validateRequiredString(Get(params, "number"), <<"number">>))),
  Check(IfTruthy(Get(params, "client_company_name"),
          validateRequiredString(Get(params, "client_company_name"),
                                 <<"client_company_name">>))),
  Check(IfTruthy(Get(params, "status"),
          validateEnum(Get(params, "status"), <<"status">>, INVOICE_STATUSES))),
  Check(IfTruthy(Get(params, "invoice_date_from"),
          validateDateString(Get(params, "invoice_date_from"), <<"invoice_date_from">>))),
  Check(IfTruthy(Get(params, "invoice_date_to"),
          validateDateString(Get(params, "invoice_date_to"), <<"invoice_date_to">>))),
  Request("GET", <<"/invoices.json">>, Undefined,
          WithFilters(sanitizeParams(Pick(params, <<"offset", "limit", "order", "fields">>)),
                      Obj(Filter(params, "number", "number_eq")
                          \o Filter(params, "client_company_name", "client_company_name_cont")
                          \o Filter(params, "status", "status_eq")
                          \o Filter(params, "invoice_date_from", "invoice_date_gteq")
                          \o Filter(params, "invoice_date_to", "invoice_date_lteq")))),
  Respond("json_converted", <<>>) >>

getInvoice(params) == <<
  Check(validateUUID(Get(params, "invoice_uuid"), <<"invoice_uuid">>)),
  Request("GET", <<"/invoices/">> \o JoinItemString(Get(params, "invoice_uuid"))
                 \o <<".json">>, Undefined,
          sanitizeParams(Pick(params, <<"fields">>))),
  Respond("json_converted", <<>>) >>

updateInvoice(params) == <<
  Check(validateUUID(Get(params, "invoice_uuid"), <<"invoice_uuid">>)),
  Check(IfDefined(Get(params, "payment_method"),
          validateEnum(Get(params, "payment_method"), <<"payment_method">>, PAYMENT_METHODS))),
  Check(IfDefined(Get(params, "invoice_date"),
          validateDateString(Get(params, "invoice_date"), <<"invoice_date">>))),
  Check(IfDefined(Get(params, "sale_date"),
          validateDateString(Get(params, "sale_date"), <<"sale_date">>))),
  Check(IfDefined(Get(params, "payment_date"),
          validateDateString(Get(params, "payment_date"), <<"payment_date">>))),
  Check(IfDefined(Get(params, "services"),
          validateArray(Get(params, "services"), <<"services">>))),
  Request("PUT", <<"/invoices/">> \o JoinItemString(Get(params, "invoice_uuid"))
                 \o <<".json">>,
          Obj(<<KV("invoice", Rest(params, "invoice_uuid"))>>), Undefined),
  Respond("json_converted", <<>>) >>

deleteInvoice(params) == <<
  Check(validateUUID(Get(params, "invoice_uuid"), <<"invoice_uuid">>)),
  Request("DELETE", <<"/invoices/">> \o JoinItemString(Get(params, "invoice_uuid"))
                    \o <<".json">>, Undefined, Undefined),
  Respond("text", <<"Invoice ">> \o JoinItemString(Get(params, "invoice_uuid"))
                  \o <<" deleted successfully">>) >>

downloadInvoicePdf(params) == <<
  Check(validateUUID(Get(params, "invoice_uuid"), <<"invoice_uuid">>)),
  Check(IfDefined(Get(params, "document_type"),
          validateEnum(Get(params, "document_type"), <<"document_type">>, DOCUMENT_TYPES))),
  Check(IfDefined(Get(params, "locale"),
          validateEnum(Get(params, "locale"), <<"locale">>, LOCALES))),
  Request("GET_BINARY", <<"/invoices/">> \o JoinItemString(Get(params, "invoice_uuid"))
                        \o <<"/pdf.json">>, Undefined,
          sanitizeParams(Pick(params, <<"document_type", "locale">>))),
  Respond("pdf", <<>>) >>

sendInvoiceEmail(params) == <<
  Check(validateUUID(Get(params, "invoice_uuid"), <<"invoice_uuid">>)),
  Request("POST", <<"/invoices/">> \o JoinItemString(Get(params, "invoice_uuid"))
                  \o <<"/deliver_via_email.json">>,
          sanitizeParams(Rest(params, "invoice_uuid")), Undefined),
  Respond("json_converted", <<>>) >>

markInvoicePaid(params) == <<
  Check(validateUUID(Get(params, "invoice_uuid"), <<"invoice_uuid">>)),
  Check(validateDateString(Get(params, "paid_date"), <<"paid_date">>)),
  Request("POST", <<"/async/invoices/">> \o JoinItemString(Get(params, "invoice_uuid"))
                  \o <<"/paid.json">>,
          Obj(<<KV("paid_date", Get(params, "paid_date"))>>), Undefined),
  Respond("json_converted", <<>>) >>

listClients(params) == <<
  Check(validatePaginationParams(params)),
  Check(IfTruthy(Get(params, "company_name"),
          validateRequiredString(Get(params, "company_name"), <<"company_name">>))),
  Check(IfTruthy(Get(params, "nip"),
          validateRequiredString(Get(params, "nip"), <<"nip">>))),
  Check(IfTruthy(Get(params, "email"),
          validateRequiredString(Get(params, "email"), <<"email">>))),
  Request("GET", <<"/clients.json">>, Undefined,
          WithFilters(sanitizeParams(Pick(params, <<"offset", "limit", "fields">>)),
                      Obj(Filter(params, "company_name", "company_name_cont")
                          \o Filter(params, "nip", "nip_eq")
                          \o Filter(params, "email", "email_eq")))),
  Respond("json_converted", <<>>) >>

getClient(params) == <<
  Check(validatePositiveNumber(Get(params, "client_id"), <<"client_id">>)),
  Request("GET", <<"/clients/">> \o JoinItemString(Get(params, "client_id"))
                 \o <<".json">>, Undefined, Undefined),
  Respond("json_converted", <<>>) >>

createClient(params) == <<
  Check(validateRequiredString(Get(params, "company_name"), <<"company_name">>)),
  Check(IfDefined(Get(params, "business_activity_kind"),
          validateEnum(Get(params, "business_activity_kind"),
                       <<"business_activity_kind">>, BUSINESS_ACTIVITY_KINDS))),
  Request("POST", <<"/clients.json">>, Obj(<<KV("client", params)>>), Undefined),
  Respond("json_converted", <<>>) >>

updateClient(params) == <<
  Check(validatePositiveNumber(Get(params, "client_id"), <<"client_id">>)),
  Request("PUT", <<"/clients/">> \o JoinItemString(Get(params, "client_id"))
                 \o <<".json">>,
          Obj(<<KV("client", Rest(params, "client_id"))>>), Undefined),
  Respond("json_converted", <<>>) >>

deleteClient(params) == <<
  Check(validatePositiveNumber(Get(params, "client_id"), <<"client_id">>)),
  Request("DELETE", <<"/clients/">> \o JoinItemString(Get(params, "client_id"))
                    \o <<".json">>, Undefined, Undefined),
  Respond("text", <<"Client ">> \o JoinItemString(Get(params, "client_id"))
                  \o <<" deleted successfully">>) >>

listProducts(params) == <<
  Check(validatePaginationParams(params)),
  Check(IfTruthy(Get(params, "name"),
          validateRequiredString(Get(params, "name"), <<"name">>))),
  Request("GET", <<"/products.json">>, Undefined,
          WithFilters(sanitizeParams(Pick(params, <<"offset", "limit", "fields">>)),
                      Obj(Filter(params, "name", "name_cont")))),
  Respond("json", <<>>) >>

getProduct(params) == <<
  Check(validatePositiveNumber(Get(params, "product_id"), <<"product_id">>)),
  Request("GET", <<"/products/">> \o JoinItemString(Get(params, "product_id"))
                 \o <<".json">>, Undefined, Undefined),
  Respond("json", <<>>) >>

createProduct(params) == <<
  Check(validateRequiredString(Get(params, "name"), <<"name">>)),
  Check(validatePositiveNumber(Get(params, "unit_net_price"), <<"unit_net_price">>)),
  Check(IF Get(params, "tax_symbol") = Undefined
           \/ (TypeOf(Get(params, "tax_symbol")) # "string"
               /\ TypeOf(Get(params, "tax_symbol")) # "number")
        THEN PlainError(<<"tax_symbol is required and must be a string or number">>)
        ELSE NoError),
  Request("POST", <<"/products.json">>, Obj(<<KV("product", params)>>), Undefined),
  Respond("json", <<>>) >>

updateProduct(params) == <<
  Check(validatePositiveNumber(Get(params, "product_id"), <<"product_id">>)),
  Check(IfDefined(Get(params, "unit_net_price"),
          validatePositiveNumber(Get(params, "unit_net_price"), <<"unit_net_price">>))),
  Request("PUT", <<"/products/">> \o JoinItemString(Get(params, "product_id"))
                 \o <<".json">>,
          Obj(<<KV("product", Rest(params, "product_id"))>>), Undefined),
  Respond("json", <<>>) >>

deleteProduct(params) == <<
  Check(validatePositiveNumber(Get(params, "product_id"), <<"product_id">>)),
  Request("DELETE", <<"/products/">> \o JoinItemString(Get(params, "product_id"))
                    \o <<".json">>, Undefined, Undefined),
  Respond("text", <<"Product ">> \o JoinItemString(Get(params, "product_id"))
                  \o <<" deleted successfully">>) >>

getVatRates(params) == <<
  Request("GET", <<"/vat_rates.json">>, Undefined, Undefined),
  Respond("json_converted", <<>>) >>

getBankAccounts(params) == <<
  Request("GET", <<"/bank_accounts.json">>, Undefined, Undefined),
  Respond("json_converted", <<>>) >>

getAccountInfo(params) == <<
  Request("GET", <<"/account.json">>, Undefined, Undefined),
  Respond("json_converted", <<>>) >>

\* The repository holds a second version of the reference-data handlers,
\* whose createJsonResponse serializes the response as it came.
getVatRatesUnconverted(params) == <<
  Request("GET", <<"/vat_rates.json">>, Undefined, Undefined),
  Respond("json", <<>>) >>

getBankAccountsUnconverted(params) == <<
  Request("GET", <<"/bank_accounts.json">>, Undefined, Undefined),
  Respond("json", <<>>) >>

getAccountInfoUnconverted(params) == <<
  Request("GET", <<"/account.json">>, Undefined, Undefined),
  Respond("json", <<>>) >>

listCosts(params) == <<
  Check(validatePaginationParams(params)),
  Request("GET", <<"/documents/costs.json">>, Undefined,
          sanitizeParams(Pick(params, <<"offset", "limit", "fields">>))),
  Respond("json", <<>>) >>

getCost(params) == <<
  Check(validateUUID(Get(params, "cost_uuid"), <<"cost_uuid">>)),
  Request("GET", <<"/documents/costs/">> \o JoinItemString(Get(params, "cost_uuid"))
                 \o <<".json">>, Undefined, Undefined),
  Respond("json", <<>>) >>

(***************************************************************************)
(* Response shaping                                                        *)
(***************************************************************************)
Base64Alphabet ==
  <<"A", "B", "C", "D", "E", "F", "G", "H", "I", "J", "K", "L", "M", "N", "O", "P",
    "Q", "R", "S", "T", "U", "V", "W", "X", "Y", "Z", "a", "b", "c", "d", "e", "f",
    "g", "h", "i", "j", "k", "l", "m", "n", "o", "p", "q", "r", "s", "t", "u", "v",
    "w", "x", "y", "z", "0", "1", "2", "3", "4", "5", "6", "7", "8", "9", "+", "/">>

RECURSIVE Base64(_)
RECURSIVE Base64WholeGroups(_)
\* the base64 text of the whole groups of three bytes only
Base64WholeGroups(bytes) ==
  IF Len(bytes) < 3 THEN <<>>
  ELSE <<Base64Alphabet[bytes[1] \div 4 + 1],
         Base64Alphabet[(bytes[1] % 4) * 16 + bytes[2] \div 16 + 1],
         Base64Alphabet[(bytes[2] % 16) * 4 + bytes[3] \div 64 + 1],
         Base64Alphabet[(bytes[3] % 64) + 1]>>
       \o Base64WholeGroups(SubSeq(bytes, 4, Len(bytes)))

\* Buffer.from(bytes).toString("base64")
Base64(bytes) ==
  IF bytes = <<>> THEN <<>>
  ELSE IF Len(bytes) = 1
  THEN <<Base64Alphabet[bytes[1] \div 4 + 1],
         Base64Alphabet[(bytes[1] % 4) * 16 + 1], "=", "=">>
  ELSE IF Len(bytes) = 2
  THEN <<Base64Alphabet[bytes[1] \div 4 + 1],
         Base64Alphabet[(bytes[1] % 4) * 16 + bytes[2] \div 16 + 1],
         Base64Alphabet[(bytes[2] % 16) * 4 + 1], "=">>
  ELSE <<Base64Alphabet[bytes[1] \div 4 + 1],
         Base64Alphabet[(bytes[1] % 4) * 16 + bytes[2] \div 16 + 1],
         Base64Alphabet[(bytes[2] % 16) * 4 + bytes[3] \div 64 + 1],
         Base64Alphabet[(bytes[3] % 64) + 1]>>
       \o Base64(SubSeq(bytes, 4, Len(bytes)))

\* an ArrayBuffer
Bytes(b) == [t |-> "bytes", bytes |-> b]

\* the ToolResponse a handler returns for the response of its request:
\* the texts of its content blocks, in order
\* (the line breaks and indentation of JSON.stringify(data, null, 2) are
\* left out)
ToolResponse(shape, text, response) ==
  CASE shape = "json_converted" ->
         <<JSONStringify(convertAllMonetaryFields(response).result)>>
    [] shape = "json" -> <<JSONStringify(response)>>
    [] shape = "text" -> <<text>>
    [] shape = "pdf" ->
         << <<"PDF downloaded successfully. Base64 encoded (",
              ToString(Len(Base64(response.bytes))),
              " characters). Use base64 decode to save the file.">>,
            Base64(response.bytes) >>

(***************************************************************************)
(* index.ts: the tool registry and the dispatcher                          *)
(***************************************************************************)
\* which of the two versions of the reference-data handlers the build holds
VARIABLE referenceHandlers

ReferenceHandlerVersions == {"converting", "unconverted"}

\* Object.keys(TOOL_HANDLERS)
TOOL_NAMES ==
  <<"infakt_create_invoice", "infakt_check_invoice_status", "infakt_list_invoices",
    "infakt_get_invoice", "infakt_update_invoice", "infakt_delete_invoice",
    "infakt_download_invoice_pdf", "infakt_send_invoice_email",
    "infakt_mark_invoice_paid", "infakt_list_clients", "infakt_get_client",
    "infakt_create_client", "infakt_update_client", "infakt_delete_client",
    "infakt_list_products", "infakt_get_product", "infakt_create_product",
    "infakt_update_product", "infakt_delete_product", "infakt_get_vat_rates",
    "infakt_get_bank_accounts", "infakt_get_account_info", "infakt_list_costs",
    "infakt_get_cost">>

RegisteredTools == {TOOL_NAMES[i] : i \in 1..Len(TOOL_NAMES)}

\* TOOL_HANDLERS[name](apiClient, args) for a registered name
TOOL_HANDLERS(name, args) ==
  CASE name = "infakt_create_invoice" -> createInvoice(args)
    [] name = "infakt_check_invoice_status" -> checkInvoiceStatus(args)
    [] name = "infakt_list_invoices" -> listInvoices(args)
    [] name = "infakt_get_invoice" -> getInvoice(args)
    [] name = "infakt_update_invoice" -> updateInvoice(args)
    [] name = "infakt_delete_invoice" -> deleteInvoice(args)
    [] name = "infakt_download_invoice_pdf" -> downloadInvoicePdf(args)
    [] name = "infakt_send_invoice_email" -> sendInvoiceEmail(args)
    [] name = "infakt_mark_invoice_paid" -> markInvoicePaid(args)
    [] name = "infakt_list_clients" -> listClients(args)
    [] name = "infakt_get_client" -> getClient(args)
    [] name = "infakt_create_client" -> createClient(args)
    [] name = "infakt_update_client" -> updateClient(args)
    [] name = "infakt_delete_client" -> deleteClient(args)
    [] name = "infakt_list_products" -> listProducts(args)
    [] name = "infakt_get_product" -> getProduct(args)
    [] name = "infakt_create_product" -> createProduct(args)
    [] name = "infakt_update_product" -> updateProduct(args)
    [] name = "infakt_delete_product" -> deleteProduct(args)
    [] name = "infakt_get_vat_rates" ->
         IF referenceHandlers = "unconverted" THEN getVatRatesUnconverted(args)
         ELSE getVatRates(args)
    [] name = "infakt_get_bank_accounts" ->
         IF referenceHandlers = "unconverted" THEN getBankAccountsUnconverted(args)
         ELSE getBankAccounts(args)
    [] name = "infakt_get_account_info" ->
         IF referenceHandlers = "unconverted" THEN getAccountInfoUnconverted(args)
         ELSE getAccountInfo(args)
    [] name = "infakt_list_costs" -> listCosts(args)
    [] name = "infakt_get_cost" -> getCost(args)

\* the properties TOOL_HANDLERS, an object literal, inherits from
\* Object.prototype
ObjectPrototypeProperties ==
  {"toString", "constructor", "valueOf", "hasOwnProperty", "isPrototypeOf",
   "propertyIsEnumerable", "toLocaleString", "__proto__"}

\* what TOOL_HANDLERS[name] evaluates to
LookupHandler(name) ==
  IF name \in RegisteredTools THEN "handler"
  ELSE IF name \in ObjectPrototypeProperties THEN "inherited"
  ELSE "undefined"

NoOutcome == [kind |-> "none"]
Returned(content) == [kind |-> "response", content |-> content]
ReturnedValue(value) == [kind |-> "value", value |-> value]
Thrown(err) == [kind |-> "error", err |-> err]

\* the ApiClient instance handed to every handler
ApiClientInstance == Obj(<<KV("client", [t |-> "function"])>>)

\* `await handler(apiClient, args)` for a handler inherited from
\* Object.prototype, called without a receiver
InvokeInherited(name) ==
  CASE name = "toString" -> ReturnedValue(Str(<<"[object Undefined]">>))
    [] name = "constructor" -> ReturnedValue(ApiClientInstance)
    [] name = "__proto__" -> Thrown(PlainError(<<"handler is not a function">>))
    [] OTHER -> Thrown(PlainError(<<"Cannot convert undefined or null to object">>))

UnknownToolMessage(name) ==
  <<"Unknown tool: ", name, ". Available tools: ">>
  \o Join([i \in 1..Len(TOOL_NAMES) |-> <<TOOL_NAMES[i]>>], <<", ">>)

RECURSIVE Exec(_, _, _)
\* runs the steps of a handler from step i, response being the value its
\* last request resolved to, up to its next await, throw or return;
\* converts lists the values the run handed to convertAllMonetaryFields
Exec(script, i, response) ==
  IF i > Len(script)
  THEN [kind |-> "done", outcome |-> ReturnedValue(Undefined), req |-> NoRequest, next |-> i,
        converts |-> <<>>]
  ELSE IF script[i].kind = "check"
  THEN (IF script[i].err # NoError
        THEN [kind |-> "done", outcome |-> Thrown(script[i].err), req |-> NoRequest, next |-> i,
              converts |-> <<>>]
        ELSE Exec(script, i + 1, response))
  ELSE IF script[i].kind = "request"
  THEN [kind |-> "await", outcome |-> NoOutcome, req |-> script[i].req, next |-> i + 1,
        converts |-> <<>>]
  ELSE [kind |-> "done",
        outcome |-> Returned(ToolResponse(script[i].shape, script[i].text, response)),
        req |-> NoRequest, next |-> i,
        converts |-> IF script[i].shape = "json_converted" THEN <<response>> ELSE <<>>]

\* the catch block of handleToolCall: handleApiError(error)
CatchInDispatcher(r) ==
  IF r.outcome.kind = "error"
  THEN [r EXCEPT !.outcome = Thrown(handleApiError(r.outcome.err))]
  ELSE r

\* the catch block of handleToolCall logging every error it is handed
CatchInDispatcherLogAgain(r) ==
  IF r.outcome.kind = "error" THEN << <<"Unexpected error:">> \o r.outcome.err.message >>
  ELSE <<>>

\* what the catch block of handleToolCall writes to the diagnostic channel
CatchInDispatcherLog(r) ==
  IF r.outcome.kind = "error" THEN handleApiErrorLog(r.outcome.err) ELSE <<>>

\* handleToolCall(apiClient, name, args) up to its first await or its end
handleToolCall(name, args) ==
  IF LookupHandler(name) = "undefined"
  THEN [kind |-> "done",
        outcome |-> Thrown(McpError("MethodNotFound", UnknownToolMessage(name))),
        req |-> NoRequest, next |-> 0, converts |-> <<>>]
  ELSE IF LookupHandler(name) = "inherited"
  THEN [kind |-> "done", outcome |-> InvokeInherited(name), req |-> NoRequest, next |-> 0,
        converts |-> <<>>]
  ELSE Exec(TOOL_HANDLERS(name, args), 1, Undefined)

\* a reply of the remote service to a request
Success(data) == [ok |-> TRUE, data |-> data, error |-> NoError]
Failure(error) == [ok |-> FALSE, data |-> Undefined, error |-> error]

\* ApiClient.get / post / put / delete / getBinary once the request is
\* settled: response.data, or handleApiError(error) in the catch block
ApiClientSettle(reply) ==
  IF reply.ok THEN [kind |-> "return", data |-> reply.data, err |-> NoError]
  ELSE [kind |-> "throw", data |-> Undefined, err |-> handleApiError(reply.error)]

ApiClientSettleLog(reply) ==
  IF reply.ok THEN <<>> ELSE handleApiErrorLog(reply.error)

(***************************************************************************)
(* The arguments callers pass and the replies the remote service gives     *)
(***************************************************************************)
MaxServices == 2
MaxPdfBytes == 4

DateValid == Str(<<"2", "0", "2", "4", "-", "0", "2", "-", "2", "9">>)
DateInvalid == Str(<<"2", "0", "2", "4", "-", "0", "2", "-", "3", "0">>)
UuidValid ==
  Str(<<"123e4567", "-", "e89b", "-", "12d3", "-", "a456", "-", "426614174000">>)
UuidInvalid == Str(<<"123e4567", "-", "e89b">>)
Acme == Str(<<"ACME">>)
Blank == Str(<<" ">>)

ServiceValid ==
  Obj(<<KV("name", Str(<<"Consulting">>)), KV("tax_symbol", Num(23)),
        KV("unit_net_price", Num(10000))>>)
ServiceWithoutPrice ==
  Obj(<<KV("name", Str(<<"Consulting">>)), KV("tax_symbol", Str(<<"zw">>))>>)
ServiceWithoutTax ==
  Obj(<<KV("name", Str(<<"Consulting">>)), KV("gross_price", Num(12300))>>)
ServiceWithTwoPrices ==
  Obj(<<KV("name", Str(<<"Consulting">>)), KV("tax_symbol", Num(23)),
        KV("net_price", Num(10000)), KV("gross_price", Num(12300))>>)

\* arrays of at most MaxServices services
ServiceArrays ==
  {Arr(items) : items \in UNION {[1..len -> {ServiceValid, ServiceWithoutPrice,
                                             ServiceWithoutTax}]
                                 : len \in 0..MaxServices}}

UuidChoices == {Undefined, UuidValid, UuidInvalid, Num(7)}
IdChoices == {Undefined, Num(7), Num(0), Str(<<"7">>), NaN}
OffsetChoices == {Undefined, Num(0), Num(0 - 1)}
LimitChoices == {Undefined, Num(100), Num(101), Num(0)}
DateChoices == {Undefined, DateValid, DateInvalid}

\* for each tool, the arguments a caller may give and the values tried for
\* each; Undefined stands for an argument left out
ArgChoices(name) ==
  CASE name = "infakt_create_invoice" ->
         << <<"client_company_name", {Undefined, Acme}>>,
            <<"payment_method", {Undefined, Str(<<"transfer">>), Str(<<"bitcoin">>)}>>,
            <<"services", {Undefined, Str(<<"Consulting">>), Arr(<<ServiceWithTwoPrices>>)}
                          \cup ServiceArrays>>,
            <<"status", {Undefined, Str(<<"paid">>), Str(<<"draft">>), Str(<<"sent">>)}>>,
            <<"paid_date", DateChoices \cup {Str(<<>>), Num(7)}>>,
            <<"payment_date", DateChoices>> >>
    [] name = "infakt_check_invoice_status" ->
         << <<"task_reference_number", {Undefined, Str(<<"abc">>), Blank, Num(7)}>> >>
    [] name = "infakt_list_invoices" ->
         << <<"offset", OffsetChoices>>, <<"limit", LimitChoices>>,
            <<"number", {Undefined, Str(<<>>), Str(<<"FV">>)}>>,
            <<"client_company_name", {Undefined, Acme}>>,
            <<"order", {Undefined, Str(<<"invoice_date", " ", "desc">>)}>>,
            <<"status", {Undefined, Str(<<"sent">>), Str(<<"bogus">>), Null}>>,
            <<"invoice_date_from", DateChoices \cup {Bool(FALSE)}>>,
            <<"invoice_date_to", {Undefined, DateValid}>> >>
    [] name = "infakt_get_invoice" ->
         << <<"invoice_uuid", UuidChoices>>, <<"fields", {Undefined, Null, Str(<<"id">>)}>> >>
    [] name = "infakt_update_invoice" ->
         << <<"invoice_uuid", UuidChoices>>,
            <<"payment_method", {Undefined, Str(<<"cash">>), Str(<<"bitcoin">>)}>>,
            <<"sale_date", DateChoices>>,
            <<"services", {Undefined, Arr(<<ServiceValid>>), Arr(<<>>),
                          Arr(<<ServiceWithoutPrice>>)}>> >>
    [] name = "infakt_delete_invoice" -> << <<"invoice_uuid", UuidChoices>> >>
    [] name = "infakt_download_invoice_pdf" ->
         << <<"invoice_uuid", UuidChoices>>,
            <<"document_type", {Undefined, Str(<<"original">>), Str(<<"draft">>)}>>,
            <<"locale", {Undefined, Str(<<"en">>), Str(<<"de">>)}>> >>
    [] name = "infakt_send_invoice_email" ->
         << <<"invoice_uuid", UuidChoices>>,
            <<"email", {Undefined, Null, Str(<<"a", "@", "b", ".", "c">>)}>> >>
    [] name = "infakt_mark_invoice_paid" ->
         << <<"invoice_uuid", UuidChoices>>, <<"paid_date", DateChoices>> >>
    [] name = "infakt_list_clients" ->
         << <<"offset", OffsetChoices>>, <<"limit", LimitChoices>>,
            <<"company_name", {Undefined, Acme, Blank}>>,
            <<"nip", {Undefined, Str(<<"1234567890">>), Str(<<>>), Num(52), Num(0), Null,
                      Bool(FALSE)}>>,
            <<"email", {Undefined, Str(<<"a", "@", "b", ".", "c">>)}>>,
            <<"fields", {Undefined, Null, Str(<<"id">>)}>> >>
    [] name = "infakt_get_client" -> << <<"client_id", IdChoices>> >>
    [] name = "infakt_create_client" ->
         << <<"company_name", {Undefined, Acme, Blank}>>,
            <<"business_activity_kind",
              {Undefined, Str(<<"company">>), Str(<<"other">>)}>> >>
    [] name = "infakt_update_client" ->
         << <<"client_id", IdChoices>>, <<"company_name", {Undefined, Acme}>>,
            <<"email", {Undefined, Str(<<>>), Null}>> >>
    [] name = "infakt_delete_client" -> << <<"client_id", IdChoices>> >>
    [] name = "infakt_list_products" ->
         << <<"offset", OffsetChoices>>, <<"limit", LimitChoices>>,
            <<"name", {Undefined, Acme, Blank, Str(<<>>), Num(0)}>> >>
    [] name = "infakt_get_product" -> << <<"product_id", IdChoices>> >>
    [] name = "infakt_create_product" ->
         << <<"name", {Undefined, Acme}>>,
            <<"unit_net_price", {Undefined, Num(10000), Num(0)}>>,
            <<"tax_symbol", {Undefined, Num(23), Str(<<"zw">>), Bool(TRUE)}>> >>
    [] name = "infakt_update_product" ->
         << <<"product_id", IdChoices>>,
            <<"unit_net_price", {Undefined, Num(10000), Num(0)}>> >>
    [] name = "infakt_delete_product" -> << <<"product_id", IdChoices>> >>
    [] name = "infakt_list_costs" ->
         << <<"offset", OffsetChoices \cup {Num(7), Milli(500), NaN, Null, Str(<<"0">>)}>>,
            <<"limit", LimitChoices \cup {Num(1), Milli(500), NaN, Infinity, Null,
                                          Str(<<"1", "0">>)}>> >>
    [] name = "infakt_get_cost" -> << <<"cost_uuid", UuidChoices>> >>
    [] OTHER -> <<>>

RECURSIVE ArgEntries(_)
ArgEntries(choices) ==
  IF choices = <<>> THEN {<<>>}
  ELSE {(IF value = Undefined THEN <<>> ELSE <<KV(choices[1][1], value)>>) \o rest :
          value \in choices[1][2], rest \in ArgEntries(Tail(choices))}

\* the argument objects tried for a tool
ArgsOf(name) == {Obj(entries) : entries \in ArgEntries(ArgChoices(name))}

\* the names callers ask for: the registered ones, names of properties
\* every object inherits, and names that are nowhere
RequestedNames ==
  RegisteredTools \cup {"toString", "constructor", "valueOf", "__proto__"}
  \cup {"infakt_unknown", ""}

\* response bodies of the remote service
ResponseBodies ==
  {Obj(<<KV("id", Num(7)), KV("gross_price", Num(15184))>>),
   Obj(<<KV("entities", Arr(<<Obj(<<KV("net_price", Num(12345))>>)>>))>>),
   Str(<<>>)}

PdfBodies ==
  {Bytes(bytes) : bytes \in UNION {[1..len -> {0, 37, 80, 255}] : len \in 0..MaxPdfBytes}}

\* the ways a request fails
Failures ==
  {AxiosError(FALSE, 0, Undefined, <<"timeout of 30000ms exceeded">>),
   AxiosError(TRUE, 429, Str(<<>>), <<"Request failed with status code 429">>),
   AxiosError(TRUE, 503, Str(<<"Service Unavailable">>),
              <<"Request failed with status code 503">>),
   AxiosError(TRUE, 404, Obj(<<KV("message", Str(<<"Not found">>))>>),
              <<"Request failed with status code 404">>),
   AxiosError(TRUE, 422,
              Obj(<<KV("errors", Arr(<<Str(<<"name is blank">>),
                                       Str(<<"tax_symbol invalid">>)>>))>>),
              <<"Request failed with status code 422">>)}

RepliesTo(req) ==
  {Failure(error) : error \in Failures}
  \cup {Success(data) : data \in IF req.method = "GET_BINARY" THEN PdfBodies
                                 ELSE ResponseBodies}

(***************************************************************************)
(* Inputs of the error translation, of the conversion of monetary fields   *)
(* and of the conversion between grosze and PLN                            *)
(***************************************************************************)
MaxDepth == 2
MaxGrosze == 130
MaxOffset == 24

Statuses == {400, 401, 402, 403, 404, 405, 418, 422, 429, 500, 502, 503}

\* decoded bodies of failed responses
ErrorBodies ==
  {Undefined, Null, Str(<<>>), Str(<<"Bad Gateway">>),
   Arr(<<Str(<<"name is blank">>)>>)}
  \cup {Obj(entries) : entries \in ArgEntries(<<
          <<"message", {Undefined, Str(<<"Not found">>), Num(5)}>>,
          <<"error", {Undefined, Str(<<"invalid_token">>), Bool(TRUE)}>>,
          <<"errors", {Undefined, Str(<<"name is blank">>), Arr(<<>>),
                       Arr(<<Str(<<"name is blank">>)>>),
                       Arr(<<Str(<<"name is blank">>), Str(<<"tax_symbol invalid">>)>>)}>>
        >>)}

\* the errors of failed requests
FailedRequests ==
  {AxiosError(TRUE, status, data, <<"Request failed with status code ", ToString(status)>>) :
     status \in Statuses, data \in ErrorBodies}
  \cup {AxiosError(FALSE, 0, Undefined, message) :
          message \in {<<>>, <<"timeout of 30000ms exceeded">>, <<"socket hang up">>}}

Scalars ==
  {Num(12345), Num(0), Str(<<"1", "2", "3", "4", "5">>), Str(<<"zw">>), Null, Bool(TRUE)}

Keys == {"net_price", "total", "value", "name", "items"}

SiblingObject == Obj(<<KV("name", Str(<<"Consulting">>)), KV("price", Num(9900))>>)

RECURSIVE Values(_)
\* response data nested to the given depth
Values(depth) ==
  IF depth = 0 THEN Scalars
  ELSE Scalars
       \cup {Obj(<<KV(key, value)>>) : key \in Keys, value \in Values(depth - 1)}
       \cup {Obj(<<KV("name", Str(<<"Consulting">>)), KV(key, value)>>) :
               key \in Keys, value \in Values(depth - 1)}
       \cup {Arr(<<value>>) : value \in Values(depth - 1)}
       \cup {Arr(<<value, SiblingObject>>) : value \in Values(depth - 1)}

\* 2^51 - 1 - offset, for an offset below 256
BelowTwoTo51(offset) ==
  [i \in 1..51 |-> IF i <= 8 THEN LimbBits(255 - offset)[i] ELSE 1]

\* amounts in grosze: small ones, and ones next to 2^50, 2^51 and 7 * 2^49
GroszeAmounts ==
  {Double(BitsOf(amount), 0) : amount \in 0..MaxGrosze}
  \cup {Double(BitsAdd(ShiftLeft(<<1>>, 50), BitsOf(offset)), 0) : offset \in 0..MaxOffset}
  \cup {Double(BelowTwoTo51(offset), 0) : offset \in 0..MaxOffset}
  \cup {Double(BitsAdd(ShiftLeft(<<1, 1, 1>>, 49), BitsOf(offset)), 0) :
          offset \in 0..MaxOffset}

(***************************************************************************)
(* State                                                                   *)
(***************************************************************************)
VARIABLES
  pc,          \* "idle", "awaiting" (a request is in flight) or "done"
  call,        \* the name and arguments handleToolCall was entered with
  resume,      \* the step of the handler that follows the request in flight
  sent,        \* the requests issued to the remote service, in order
  received,    \* the replies of the remote service, in order
  outcome,     \* what handleToolCall returned or threw
  diagnostics, \* the lines written to the diagnostic channel
  conversions, \* the values handed to convertAllMonetaryFields, in order
  failure,     \* the error handed to handleApiError
  translated,  \* the error handleApiError threw for it
  given,       \* the data handed to convertAllMonetaryFields
  held,        \* the same data as the caller holds it
  produced,    \* what convertAllMonetaryFields returned
  minorUnits,  \* an amount in grosze
  majorUnits,  \* groszeToPLN of it
  minorAgain,  \* plnToGrosze of that
  subject,     \* a validator and the value handed to it
  verdict,     \* the error the validator threw, NoError when it returned
  declared,    \* the names of TOOLS, in order
  registry,    \* the keys of TOOL_HANDLERS, in order
  apiKey,      \* process.env.INFAKT_API_KEY
  startup,     \* where main() is: "starting", "connecting", "ready", "exited"
  transport,   \* "none" until server.connect(transport) is called
  exitCode,    \* the argument of process.exit, Undefined when not called
  startupLog,  \* the lines main() wrote to the diagnostic channel
  running,     \* for each of the tool calls running side by side, where it is
  wire,        \* for each of them, the replies of the remote service to it
  channel,     \* the lines they wrote to the diagnostic channel, in order
  sandboxSwitch,  \* process.env.INFAKT_USE_SANDBOX
  customBaseUrl,  \* process.env.INFAKT_BASE_URL
  configInstance, \* the module variable configInstance of config.ts
  returned,       \* what the last getConfig() returned or threw
  firstLoaded     \* what the first getConfig() that succeeded returned

callVars == <<referenceHandlers, pc, call, resume, sent, received, outcome, diagnostics,
             conversions>>
translationVars == <<failure, translated>>
conversionVars == <<given, held, produced>>
moneyVars == <<minorUnits, majorUnits, minorAgain>>
validationVars == <<subject, verdict>>
startupVars == <<declared, registry, apiKey, startup, transport, exitCode, startupLog>>
concurrentVars == <<running, wire, channel>>
configVars == <<sandboxSwitch, customBaseUrl, configInstance, returned, firstLoaded>>
vars == <<callVars, translationVars, conversionVars, moneyVars, validationVars, startupVars,
          concurrentVars, configVars>>

NoCall == [name |-> "", args |-> Undefined]
Pending == [t |-> "pending"]

NoCallYet ==
  /\ pc = "idle"
  /\ call = NoCall
  /\ resume = 0
  /\ sent = <<>>
  /\ received = <<>>
  /\ outcome = NoOutcome
  /\ diagnostics = <<>>
  /\ conversions = <<>>

NoTranslation == failure = NoError /\ translated = NoError
NoConversion == given = Undefined /\ held = Undefined /\ produced = Pending
NoMoney == minorUnits = Pending /\ majorUnits = Pending /\ minorAgain = Pending
NoValidation == subject = Pending /\ verdict = Pending
NoStartup ==
  /\ declared = <<>>
  /\ registry = <<>>
  /\ apiKey = Undefined
  /\ startup = "idle"
  /\ transport = "none"
  /\ exitCode = Undefined
  /\ startupLog = <<>>
NoConcurrency == running = <<>> /\ wire = <<>> /\ channel = <<>>
NoConfig ==
  /\ sandboxSwitch = Undefined
  /\ customBaseUrl = Undefined
  /\ configInstance = Null
  /\ returned = Pending
  /\ firstLoaded = Pending
Elsewhere == NoConcurrency /\ NoConfig

(***************************************************************************)
(* One tool call, from the dispatcher's entry to its outcome               *)
(***************************************************************************)
Init ==
  /\ referenceHandlers \in ReferenceHandlerVersions
  /\ NoCallYet /\ NoTranslation /\ NoConversion /\ NoMoney /\ NoValidation /\ NoStartup /\ Elsewhere

\* the state after the handler has run up to its next await or to its end
Advance(r, lines) ==
  /\ pc' = IF r.kind = "await" THEN "awaiting" ELSE "done"
  /\ sent' = IF r.kind = "await" THEN Append(sent, r.req) ELSE sent
  /\ resume' = r.next
  /\ outcome' = CatchInDispatcher(r).outcome
  /\ diagnostics' = diagnostics \o lines \o CatchInDispatcherLog(r)
  /\ conversions' = conversions \o r.converts

\* a caller enters handleToolCall(apiClient, name, args)
HandleToolCall(name, args) ==
  /\ pc = "idle"
  /\ call' = [name |-> name, args |-> args]
  /\ Advance(handleToolCall(name, args), <<>>)
  /\ UNCHANGED <<concurrentVars, configVars, startupVars, referenceHandlers, received, translationVars, conversionVars, moneyVars,
              validationVars>>

\* the request in flight settles and the handler runs on
Settle(reply) ==
  /\ pc = "awaiting"
  /\ received' = Append(received, reply)
  /\ Advance(IF ApiClientSettle(reply).kind = "throw"
             THEN [kind |-> "done", outcome |-> Thrown(ApiClientSettle(reply).err),
                   req |-> NoRequest, next |-> resume, converts |-> <<>>]
             ELSE Exec(TOOL_HANDLERS(call.name, call.args), resume,
                       ApiClientSettle(reply).data),
             ApiClientSettleLog(reply))
  /\ UNCHANGED <<concurrentVars, configVars, startupVars, referenceHandlers, call, translationVars, conversionVars, moneyVars,
              validationVars>>

Call == \E name \in RequestedNames : \E args \in ArgsOf(name) : HandleToolCall(name, args)

Reply == \E reply \in RepliesTo(sent[Len(sent)]) : Settle(reply)

Next == (pc = "idle" /\ Call) \/ (pc = "awaiting" /\ Reply)

Spec == Init /\ [][Next]_vars

(***************************************************************************)
(* Error translation on its own                                            *)
(***************************************************************************)
InitTranslation ==
  /\ referenceHandlers = "converting"
  /\ NoCallYet /\ NoConversion /\ NoMoney /\ NoValidation /\ NoStartup /\ Elsewhere
  /\ failure \in FailedRequests
  /\ translated = NoError

Translate ==
  /\ translated = NoError
  /\ translated' = handleApiError(failure)
  /\ UNCHANGED <<concurrentVars, configVars, startupVars, failure, callVars, conversionVars, moneyVars,
               validationVars>>

NextTranslation == Translate

SpecTranslation == InitTranslation /\ [][NextTranslation]_vars

(***************************************************************************)
(* Conversion of monetary fields on its own                                *)
(***************************************************************************)
InitConversion ==
  /\ referenceHandlers = "converting"
  /\ NoCallYet /\ NoTranslation /\ NoMoney /\ NoValidation /\ NoStartup /\ Elsewhere
  /\ given \in Values(MaxDepth)
  /\ held = given
  /\ produced = Pending

Convert ==
  /\ produced = Pending
  /\ held' = convertAllMonetaryFields(held).data
  /\ produced' = convertAllMonetaryFields(held).result
  /\ UNCHANGED <<concurrentVars, configVars, startupVars, given, callVars, translationVars, moneyVars,
               validationVars>>

NextConversion == Convert

SpecConversion == InitConversion /\ [][NextConversion]_vars

(***************************************************************************)
(* Grosze to PLN and back                                                  *)
(***************************************************************************)
InitMoney ==
  /\ referenceHandlers = "converting"
  /\ NoCallYet /\ NoTranslation /\ NoConversion /\ NoValidation /\ NoStartup /\ Elsewhere
  /\ minorUnits \in GroszeAmounts
  /\ majorUnits = Pending
  /\ minorAgain = Pending

ToPLN ==
  /\ majorUnits = Pending
  /\ majorUnits' = groszeToPLN64(minorUnits)
  /\ UNCHANGED <<concurrentVars, configVars, startupVars, minorUnits, minorAgain, callVars, translationVars, conversionVars,
               validationVars>>

ToGrosze ==
  /\ majorUnits # Pending
  /\ minorAgain = Pending
  /\ minorAgain' = plnToGrosze64(majorUnits)
  /\ UNCHANGED <<concurrentVars, configVars, startupVars, minorUnits, majorUnits, callVars, translationVars, conversionVars,
               validationVars>>

NextMoney == ToPLN \/ ToGrosze

SpecMoney == InitMoney /\ [][NextMoney]_vars

(***************************************************************************)
(* The validators on their own                                             *)
(***************************************************************************)
MaxMonth == 13
MaxItems == 2
MaxDay == 32

TwoDigits(number) == <<ToString(number \div 10), ToString(number % 10)>>

FourDigits(number) == TwoDigits(number \div 100) \o TwoDigits(number % 100)

\* the text YYYY-MM-DD of three numbers
DateText(year, month, day) ==
  FourDigits(year) \o <<"-">> \o TwoDigits(month) \o <<"-">> \o TwoDigits(day)

Years == {0, 1900, 2000, 2023, 2024}

\* values handed to validateDateString
DateValues ==
  {Str(DateText(year, month, day)) :
     year \in Years, month \in 0..MaxMonth, day \in 0..MaxDay}
  \cup {Undefined, Null, Num(20240), Bool(TRUE), Str(<<>>),
        Str(<<"2", "0", "2", "4", "-", "2", "-", "2", "9">>),
        Str(<<"2", "0", "2", "4", "/", "0", "2", "/", "2", "9">>),
        Str(<<"2", "0", "2", "4", "0", "2", "2", "9">>),
        Str(DateText(2024, 2, 29) \o <<" ">>),
        Str(<<" ">> \o DateText(2024, 2, 29)),
        Str(DateText(2024, 2, 29) \o <<"T", "1", "0">>),
        Str(<<"2", "9", "-", "0", "2", "-", "2", "0", "2", "4">>),
        Str(<<"today">>)}

Subject(fn, value) == [fn |-> fn, value |-> value]

\* values handed to validateInvoiceService
ServiceValues ==
  {Undefined, Null, Str(<<"Dev">>), Num(5), Bool(TRUE), Arr(<<>>)}
  \cup {Obj(entries) : entries \in ArgEntries(<<
          <<"name", {Undefined, Str(<<"Dev">>), Str(<<>>), Blank, Num(5)}>>,
          <<"tax_symbol", {Undefined, Num(23), Str(<<"zw">>), Bool(TRUE), Null}>>,
          <<"net_price", {Undefined, Num(0), Num(0 - 1)}>>,
          <<"unit_net_price", {Undefined, Num(5000), Str(<<"5000">>), NaN}>>,
          <<"gross_price", {Undefined, Num(12300), Null, Infinity}>>,
          <<"quantity", {Undefined, Num(2), Num(0), Milli(1500)}>>
        >>)}

\* elements of a services array: well-formed, and failing the item
\* validator in each of its ways
ItemValues ==
  {ServiceValid, ServiceWithoutPrice, ServiceWithoutTax, Str(<<"Dev">>), Null,
   Obj(<<KV("name", Blank), KV("tax_symbol", Num(23)), KV("net_price", Num(100))>>),
   Obj(<<KV("name", Str(<<"Dev">>)), KV("tax_symbol", Num(23)),
         KV("net_price", Num(0 - 1))>>),
   Obj(<<KV("name", Str(<<"Dev">>)), KV("tax_symbol", Num(23)),
         KV("gross_price", Num(100)), KV("quantity", Num(0))>>)}

\* values handed to validateArray
ArrayValues ==
  {Undefined, Null, Str(<<"Dev">>), ServiceValid}
  \cup {Arr(items) : items \in UNION {[1..len -> ItemValues] : len \in 0..MaxItems}}

Subjects ==
  {Subject("validateDateString", value) : value \in DateValues}
  \cup {Subject("validateInvoiceService", value) : value \in ServiceValues}
  \cup {Subject("validateArray", value) : value \in ArrayValues}

InitValidation ==
  /\ referenceHandlers = "converting"
  /\ NoCallYet /\ NoTranslation /\ NoConversion /\ NoMoney /\ NoStartup /\ Elsewhere
  /\ subject \in Subjects
  /\ verdict = Pending

ValidateDate ==
  /\ verdict = Pending
  /\ subject.fn = "validateDateString"
  /\ verdict' = validateDateString(subject.value, <<"date">>)
  /\ UNCHANGED <<concurrentVars, configVars, startupVars, subject, callVars, translationVars, conversionVars, moneyVars>>

ValidateService ==
  /\ verdict = Pending
  /\ subject.fn = "validateInvoiceService"
  /\ verdict' = validateInvoiceService(subject.value, 0)
  /\ UNCHANGED <<concurrentVars, configVars, startupVars, subject, callVars, translationVars, conversionVars, moneyVars>>

ValidateArray ==
  /\ verdict = Pending
  /\ subject.fn = "validateArray"
  /\ verdict' = validateArray(subject.value, <<"services">>)
  /\ UNCHANGED <<concurrentVars, configVars, startupVars, subject, callVars, translationVars, conversionVars, moneyVars>>

NextValidation == ValidateDate \/ ValidateService \/ ValidateArray

SpecValidation == InitValidation /\ [][NextValidation]_vars

(***************************************************************************)
(* index.ts: startup                                                       *)
(***************************************************************************)
MaxTools == 2
MinApiKeyLength == 10

\* names.includes(name)
Has(names, name) == \E i \in 1..Len(names) : names[i] = name

\* [...new Set(names)]: the names without repetition, in insertion order
RECURSIVE SetOf(_)
SetOf(names) ==
  IF names = <<>> THEN <<>>
  ELSE LET before == SetOf(SubSeq(names, 1, Len(names) - 1))
           last == names[Len(names)]
       IN IF Has(before, last) THEN before ELSE Append(before, last)

\* a line of the diagnostic channel, or the message of an error: a text and
\* the names joined into it
Line(text, names) == [text |-> text, names |-> names]
NotThrown == [text |-> "", names |-> <<>>]

\* validateToolHandlers() where a tool without handler is only warned about
validateToolHandlersWarningOnly(tools, keys) ==
  LET toolNames == SetOf(tools)
      handlerNames == SetOf(keys)
      missingHandlers == SelectSeq(toolNames, LAMBDA name : ~Has(handlerNames, name))
      extraHandlers == SelectSeq(handlerNames, LAMBDA name : ~Has(toolNames, name))
  IN [thrown |-> NotThrown,
      lines |-> IF Len(missingHandlers) > 0 \/ Len(extraHandlers) > 0
                  THEN <<Line("Warning: Handlers registered for non-existent tools: ",
                              extraHandlers)>>
                  ELSE <<>>]

\* validateToolHandlers(): the error it throws, NotThrown when it returns,
\* and the lines it writes
validateToolHandlers(tools, keys) ==
  LET toolNames == SetOf(tools)
      handlerNames == SetOf(keys)
      missingHandlers == SelectSeq(toolNames, LAMBDA name : ~Has(handlerNames, name))
      extraHandlers == SelectSeq(handlerNames, LAMBDA name : ~Has(toolNames, name))
  IN IF Len(missingHandlers) > 0
       THEN [thrown |-> Line("Missing handlers for tools: ", missingHandlers),
             lines |-> <<>>]
       ELSE [thrown |-> NotThrown,
             lines |-> IF Len(extraHandlers) > 0
                         THEN <<Line("Warning: Handlers registered for non-existent tools: ",
                                     extraHandlers)>>
                         ELSE <<>>]

\* API_ENDPOINTS; a URL is the sequence of its parts
PRODUCTION == Str(<<"https", "://", "api.infakt.pl", "/api/v3">>)
SANDBOX == Str(<<"https", "://", "api.sandbox-infakt.pl", "/api/v3">>)

\* new URL(url) taken never to throw
UrlParsesAnything(url) == TRUE

\* new URL(url) does not throw: a scheme, "://" and a host, then a path
UrlParses(url) ==
  /\ Len(url.s) >= 3
  /\ url.s[1] \in {"https", "http"}
  /\ url.s[2] = "://"
  /\ url.s[3] \notin {"", " ", "/"}
  /\ \A i \in 4..Len(url.s) : url.s[i] # " "

\* parseBooleanEnvVar(name, defaultValue), value being process.env[name]
parseBooleanEnvVar(value, defaultValue) ==
  IF value = Undefined THEN defaultValue
  ELSE value = Str(<<"true">>) \/ value = Str(<<"1">>)

\* loadConfig(): the ConfigurationError of requireEnvVar, validateApiKey or
\* validateUrl, NotThrown when the configuration loads, and the
\* configuration; key, sandbox and url are the environment's
\* INFAKT_API_KEY, INFAKT_USE_SANDBOX and INFAKT_BASE_URL
loadConfig(key, sandbox, url) ==
  LET useSandbox == parseBooleanEnvVar(sandbox, FALSE)
      baseUrl == IF useSandbox THEN SANDBOX
                 ELSE IF url # Undefined THEN url ELSE PRODUCTION
  IN IF ~Truthy(key)
       THEN [thrown |-> Line("Missing required environment variable: ",
                             <<"INFAKT_API_KEY">>),
             config |-> Null]
     ELSE IF Len(key.s) < MinApiKeyLength
       THEN [thrown |-> Line("Invalid API key format: key appears to be too short", <<>>),
             config |-> Null]
     ELSE IF ~UrlParses(baseUrl)
       THEN [thrown |-> Line("Invalid URL format: ", baseUrl.s), config |-> Null]
     ELSE [thrown |-> NotThrown,
           config |-> Obj(<<KV("apiKey", key), KV("baseUrl", baseUrl),
                            KV("useSandbox", Bool(useSandbox))>>)]

\* getConfig() that loads the configuration every time
getConfigReloading(instance, key, sandbox, url) ==
  LET loaded == loadConfig(key, sandbox, url)
  IN [thrown |-> loaded.thrown, config |-> loaded.config,
      instance |-> IF loaded.thrown = NotThrown THEN loaded.config ELSE instance]

\* getConfig(), instance being configInstance: what it throws or returns,
\* and configInstance afterwards
getConfig(instance, key, sandbox, url) ==
  LET loaded == loadConfig(key, sandbox, url)
  IN IF instance # Null
       THEN [thrown |-> NotThrown, config |-> instance, instance |-> instance]
     ELSE [thrown |-> loaded.thrown, config |-> loaded.config,
           instance |-> IF loaded.thrown = NotThrown THEN loaded.config ELSE instance]

\* the catch block of main() for a ConfigurationError
ConfigurationErrorLines(error) ==
  <<Line("Configuration Error:", <<error>>),
    Line("Required environment variables:", <<>>),
    Line("Optional environment variables:", <<>>)>>

\* the catch block of main() for any other error
FatalErrorLines(error) ==
  <<Line("Fatal error starting server:", <<error>>), Line("Stack trace:", <<>>)>>

Banner == <<Line("inFakt MCP Server", <<>>)>>

ToolNameChoices == {"infakt_create_invoice", "infakt_list_clients", "infakt_get_vat_rates"}

\* the tables of a build: the repository's own, and smaller ones
ToolTables ==
  {<<TOOL_NAMES, TOOL_NAMES>>}
  \cup {<<tools, keys>> :
          tools \in UNION {[1..n -> ToolNameChoices] : n \in 0..MaxTools},
          keys \in {k \in UNION {[1..n -> ToolNameChoices] : n \in 0..MaxTools} :
                      SetOf(k) = k}}

ApiKeyChoices ==
  {Undefined, Str(<<"k", "e", "y">>),
   Str(<<"0", "1", "2", "3", "4", "5", "6", "7", "8", "9">>)}

SandboxChoices == {Undefined, Str(<<"true">>), Str(<<"1">>), Str(<<"false">>)}

BaseUrlChoices ==
  {Undefined, Str(<<"https", "://", "example.test", "/api">>), Str(<<"example.test">>),
   Str(<<>>)}

InitStartup ==
  /\ referenceHandlers = "converting"
  /\ NoCallYet /\ NoTranslation /\ NoConversion /\ NoMoney /\ NoValidation
  /\ NoConcurrency
  /\ \E table \in ToolTables : declared = table[1] /\ registry = table[2]
  /\ apiKey \in ApiKeyChoices
  /\ sandboxSwitch \in SandboxChoices
  /\ customBaseUrl \in BaseUrlChoices
  /\ configInstance = Null
  /\ returned = Pending
  /\ firstLoaded = Pending
  /\ startup = "starting"
  /\ transport = "none"
  /\ exitCode = Undefined
  /\ startupLog = <<>>

\* process.exit(1) out of a catch block of main()
Exit(lines) ==
  /\ startupLog' = startupLog \o lines
  /\ startup' = "exited"
  /\ exitCode' = Num(1)

\* main(): validateToolHandlers()
ValidateTools ==
  /\ startup = "starting"
  /\ LET check == validateToolHandlers(declared, registry)
     IN IF check.thrown # NotThrown
          THEN Exit(FatalErrorLines(check.thrown))
          ELSE /\ startupLog' = startupLog \o check.lines
               /\ startup' = "checked"
               /\ exitCode' = exitCode
  /\ UNCHANGED <<transport, concurrentVars, configVars, declared, registry, apiKey, callVars,
                 translationVars, conversionVars, moneyVars, validationVars>>

\* main(): getConfig(), getDisplayConfig() and the banner
LoadConfiguration ==
  /\ startup = "checked"
  /\ LET config == getConfig(configInstance, apiKey, sandboxSwitch, customBaseUrl)
     IN /\ configInstance' = config.instance
        /\ returned' = [thrown |-> config.thrown, config |-> config.config]
        /\ firstLoaded' = IF firstLoaded = Pending /\ config.thrown = NotThrown
                          THEN config.config ELSE firstLoaded
        /\ IF config.thrown # NotThrown
             THEN Exit(ConfigurationErrorLines(config.thrown))
             ELSE /\ startupLog' = startupLog \o Banner
                  /\ startup' = "configured"
                  /\ exitCode' = exitCode
  /\ UNCHANGED <<transport, concurrentVars, sandboxSwitch, customBaseUrl, declared, registry,
                 apiKey, callVars, translationVars, conversionVars, moneyVars,
                 validationVars>>

\* main(): createApiClient(config), new ApiClient(...), createMcpServer(...)
CreateClient ==
  /\ startup = "configured"
  /\ startup' = "constructed"
  /\ UNCHANGED <<transport, exitCode, startupLog, concurrentVars, configVars, declared,
                 registry, apiKey, callVars, translationVars, conversionVars, moneyVars,
                 validationVars>>

\* main(): new StdioServerTransport() and server.connect(transport), up to
\* the await
ConnectTransport ==
  /\ startup = "constructed"
  /\ startup' = "connecting"
  /\ transport' = "connecting"
  /\ UNCHANGED <<exitCode, startupLog, concurrentVars, configVars, declared, registry, apiKey,
                 callVars, translationVars, conversionVars, moneyVars, validationVars>>

\* server.connect(transport) settles, and main() runs to its end
Connect ==
  /\ startup = "connecting"
  /\ \E connected \in BOOLEAN :
       IF connected
         THEN /\ transport' = "connected"
              /\ startup' = "ready"
              /\ startupLog' = startupLog
                                 \o <<Line("Server started successfully on stdio transport", <<>>),
                                      Line("Ready to receive requests...", <<>>)>>
              /\ exitCode' = exitCode
         ELSE /\ transport' = "failed"
              /\ Exit(FatalErrorLines(Line("connect", <<>>)))
  /\ UNCHANGED <<concurrentVars, configVars, declared, registry, apiKey, callVars,
                 translationVars, conversionVars, moneyVars, validationVars>>

NextStartup == ValidateTools \/ LoadConfiguration \/ CreateClient \/ ConnectTransport \/ Connect

SpecStartup == InitStartup /\ [][NextStartup]_vars

(***************************************************************************)
(* Properties of startup                                                   *)
(***************************************************************************)
\* some declared tool name has no registered handler
SomeToolWithoutHandler == \E i \in 1..Len(declared) : ~Has(registry, declared[i])

\* some registered handler has no declared tool
SomeHandlerWithoutTool == \E i \in 1..Len(registry) : ~Has(declared, registry[i])

\* main() wrote the message of a failed startup check
CheckFailed ==
  \E i \in 1..Len(startupLog) :
    /\ startupLog[i].text = "Fatal error starting server:"
    /\ startupLog[i].names[1].text = "Missing handlers for tools: "

Warned ==
  \E i \in 1..Len(startupLog) :
    startupLog[i].text = "Warning: Handlers registered for non-existent tools: "

\* C19: once main() has run, the startup check has failed and the process
\* has exited with the transport never connected to exactly when some
\* declared tool name has no registered handler; a registered handler with
\* no declared tool then only leaves a warning on the diagnostic channel,
\* and startup goes on: if the process exits after that, it is on a
\* configuration error or on a connection that failed.
C19_StartupFailsIffToolWithoutHandler ==
  startup # "starting"
  => /\ (CheckFailed /\ startup = "exited" /\ exitCode = Num(1) /\ transport = "none")
        <=> SomeToolWithoutHandler
     /\ CheckFailed
        => /\ ~Warned
           /\ Len(startupLog) = 2
           /\ startupLog[1].names[1].names
                = SelectSeq(SetOf(declared), LAMBDA name : ~Has(registry, name))
     /\ (SomeHandlerWithoutTool /\ ~SomeToolWithoutHandler)
        => /\ Warned
           /\ ~CheckFailed
           /\ startup = "exited"
              => \/ loadConfig(apiKey, sandboxSwitch, customBaseUrl).thrown # NotThrown
                 \/ transport = "failed"
     /\ Warned <=> (SomeHandlerWithoutTool /\ ~SomeToolWithoutHandler)

\* a build with a tool without handler, and a handler without tool besides,
\* has exited on the failed check without a warning
C19_Witness ==
  /\ SomeToolWithoutHandler /\ SomeHandlerWithoutTool
  /\ startup = "exited" /\ CheckFailed /\ transport = "none"

(***************************************************************************)
(* Properties of a tool call                                               *)
(***************************************************************************)
\* the steps of the handler of the call under way
Steps == TOOL_HANDLERS(call.name, call.args)

\* the handler of the call under way rejects its arguments
Rejecting ==
  /\ call.name \in RegisteredTools
  /\ \E i \in 1..Len(Steps) : Steps[i].kind = "check" /\ Steps[i].err # NoError

\* the error of the first check of the handler that fails
Rejection ==
  Steps[CHOOSE i \in 1..Len(Steps) :
          /\ Steps[i].kind = "check" /\ Steps[i].err # NoError
          /\ \A j \in 1..(i - 1) : Steps[j].kind = "check" => Steps[j].err = NoError].err

\* C1: a call of a name that is not a registered tool name, whatever the
\* name, ends in a method-not-found error whose message lists every
\* registered tool name, with no handler run and no request issued.
C1_UnregisteredNameIsMethodNotFound ==
  (pc # "idle" /\ call.name \notin RegisteredTools)
  => /\ pc = "done"
     /\ outcome = Thrown(McpError("MethodNotFound", UnknownToolMessage(call.name)))
     /\ \A i \in 1..Len(TOOL_NAMES) :
          \E j \in 1..Len(outcome.err.message) : outcome.err.message[j] = TOOL_NAMES[i]
     /\ sent = <<>>

\* C2: a call whose arguments fail any check of its handler issues no
\* request: requests are issued only after all the checks have passed.
C2_NoRequestUnlessChecksPass == Rejecting => sent = <<>>

\* a call of create-invoice rejected by the last of its checks alone has
\* ended without a request
C2_Witness ==
  /\ pc = "done"
  /\ call.name = "infakt_create_invoice"
  /\ Rejecting
  /\ Rejection.field = <<"payment_date">>
  /\ outcome = Thrown(Rejection)
  /\ sent = <<>>

\* C3: every rejection of the arguments by a handler reaches the caller as
\* an invalid-parameters validation error naming the offending field, the
\* very error the check raised.
C3_RejectionIsValidationError ==
  (pc = "done" /\ Rejecting)
  => /\ outcome.kind = "error"
     /\ outcome.err.cls = "ValidationError"
     /\ outcome.err.code = "InvalidParams"
     /\ outcome.err.field # <<>>
     /\ outcome.err = Rejection

\* C4: a tool call issues at most one request, exactly one when its
\* arguments are valid; once a reply has come, failed or not, the call is
\* over and nothing more is issued.
C4_AtMostOneRequest ==
  /\ Len(sent) <= 1
  /\ (pc # "idle" /\ call.name \in RegisteredTools /\ ~Rejecting) => Len(sent) = 1
  /\ received # <<>> => (pc = "done" /\ Len(sent) = 1 /\ Len(received) = 1)

\* a status read that was answered 429 has ended after its one request
C4_Witness ==
  /\ pc = "done"
  /\ call.name = "infakt_check_invoice_status"
  /\ Len(sent) = 1
  /\ Len(received) = 1
  /\ ~received[1].ok
  /\ received[1].error.status = 429
  /\ outcome.kind = "error"

(***************************************************************************)
(* Properties of the error translation                                     *)
(***************************************************************************)
\* C5: the category of a failed request follows from its status alone:
\* 400 and 422 give invalid-parameters; 401, 403 and 404 give
\* invalid-request; any other status and no status give internal-error.
C5_CategoryFromStatus ==
  (translated # NoError /\ failure.cls = "AxiosError")
  => translated.code =
       (IF failure.hasResponse /\ failure.status \in {400, 422} THEN "InvalidParams"
        ELSE IF failure.hasResponse /\ failure.status \in {401, 403, 404}
        THEN "InvalidRequest"
        ELSE "InternalError")

\* a timeout, which has no status, was translated to internal-error
C5_Witness ==
  /\ failure.cls = "AxiosError"
  /\ ~failure.hasResponse
  /\ failure.message = <<"timeout of 30000ms exceeded">>
  /\ translated # NoError
  /\ translated.code = "InternalError"

\* the message a failed response with a status resolves to: the first of
\* the body's message, error and errors that is a string, else its errors
\* when a non-empty array, joined, else the message for the status
ResolvedMessage ==
  LET fields == <<Get(failure.data, "message"), Get(failure.data, "error"),
                  Get(failure.data, "errors")>>
      strings == {i \in 1..3 : fields[i].t = "string"}
  IN IF strings # {}
     THEN fields[CHOOSE i \in strings : \A j \in strings : i <= j].s
     ELSE IF fields[3].t = "array" /\ fields[3].items # <<>>
     THEN Join([i \in 1..Len(fields[3].items) |-> fields[3].items[i].s], <<", ">>)
     ELSE StatusMessage(failure.status)

\* C6 as stated: for a failed response with a status the translated error
\* message is the resolved message itself (for 422 with errors
\* ['name is blank', 'tax_symbol invalid'] it equals
\* 'name is blank, tax_symbol invalid').
C6_MessageIsResolvedMessage ==
  (translated # NoError /\ failure.cls = "AxiosError" /\ failure.hasResponse)
  => translated.message = ResolvedMessage

\* C6: for a failed response with a status the translated error message
\* is 'inFakt API error (<status>): ' followed by the resolved message,
\* followed by '\nDetails: ' and the serialized body when the body is
\* truthy; the resolved message is the first of the body's message, error
\* and errors fields that is a string, else errors when a non-empty array,
\* joined with ', ', else the fixed message for the status.
C6_MessageEmbedsResolvedMessage ==
  (translated # NoError /\ failure.cls = "AxiosError" /\ failure.hasResponse)
  => translated.message =
       <<"inFakt API error (", ToString(failure.status), "): ">>
       \o ResolvedMessage
       \o (IF Truthy(failure.data)
           THEN <<"\nDetails: ">> \o JSONStringify(failure.data) ELSE <<>>)

\* 422 with errors ['name is blank', 'tax_symbol invalid'] was translated
\* to invalid-parameters with the two errors joined after the prefix
C6_Witness ==
  /\ failure.cls = "AxiosError"
  /\ failure.hasResponse
  /\ failure.status = 422
  /\ failure.data = Obj(<<KV("errors", Arr(<<Str(<<"name is blank">>),
                                            Str(<<"tax_symbol invalid">>)>>))>>)
  /\ translated # NoError
  /\ translated.code = "InvalidParams"
  /\ SubSeq(translated.message, 1, 6) =
       <<"inFakt API error (", "422", "): ", "name is blank", ", ", "tax_symbol invalid">>
  /\ Len(translated.message) > 6

(***************************************************************************)
(* Properties of the conversion between grosze and PLN                     *)
(***************************************************************************)
\* C7: for every integer g >= 0, plnToGrosze(groszeToPLN(g)) = g.
C7_RoundTrip == minorAgain # Pending => minorAgain = minorUnits

(***************************************************************************)
(* Properties of the conversion of monetary fields                         *)
(***************************************************************************)
RECURSIVE DividedEverywhere(_, _)
\* in `after`, every number `before` holds under a monetary field name, at
\* any depth and under any path, is divided by 100
DividedEverywhere(before, after) ==
  IF before.t = "array"
  THEN /\ after.t = "array"
       /\ Len(after.items) = Len(before.items)
       /\ \A i \in 1..Len(before.items) : DividedEverywhere(before.items[i], after.items[i])
  ELSE IF before.t = "object"
  THEN /\ after.t = "object"
       /\ Len(after.e) = Len(before.e)
       /\ \A i \in 1..Len(before.e) :
            /\ after.e[i].k = before.e[i].k
            /\ IF before.e[i].k \in MONETARY_FIELDS /\ before.e[i].v.t = "number"
               THEN after.e[i].v = Milli(before.e[i].v.n \div 100)
               ELSE DividedEverywhere(before.e[i].v, after.e[i].v)
  ELSE TRUE

\* C8: every numeric value held under a monetary field name is replaced by
\* the value divided by 100, at any depth, in objects and in arrays,
\* whatever the keys on the path leading to it.
C8_NumbersDividedEverywhere == produced # Pending => DividedEverywhere(given, produced)

\* null, a boolean, or text without a digit
NonNumeric(value) ==
  \/ value.t \in {"null", "boolean"}
  \/ (value.t = "string" /\ \A i \in 1..Len(value.s) : value.s[i] \notin Digits)

RECURSIVE NonNumericKept(_, _)
\* in `after`, every non-numeric value `before` holds under a monetary field
\* name is the same
NonNumericKept(before, after) ==
  IF before.t = "array"
  THEN /\ after.t = "array"
       /\ Len(after.items) = Len(before.items)
       /\ \A i \in 1..Len(before.items) : NonNumericKept(before.items[i], after.items[i])
  ELSE IF before.t = "object"
  THEN /\ after.t = "object"
       /\ Len(after.e) = Len(before.e)
       /\ \A i \in 1..Len(before.e) :
            /\ after.e[i].k = before.e[i].k
            /\ IF before.e[i].k \in MONETARY_FIELDS /\ NonNumeric(before.e[i].v)
               THEN after.e[i].v = before.e[i].v
               ELSE NonNumericKept(before.e[i].v, after.e[i].v)
  ELSE TRUE

\* C9: a monetary field holding null, a boolean or non-numeric text is
\* returned with its value unchanged.
C9_NonNumericUnchanged == produced # Pending => NonNumericKept(given, produced)

RECURSIVE SameOutside(_, _)
\* `after` has the shape of `before` and the same value wherever the key is
\* not a monetary field name
SameOutside(before, after) ==
  IF before.t = "array"
  THEN /\ after.t = "array"
       /\ Len(after.items) = Len(before.items)
       /\ \A i \in 1..Len(before.items) : SameOutside(before.items[i], after.items[i])
  ELSE IF before.t = "object"
  THEN /\ after.t = "object"
       /\ Len(after.e) = Len(before.e)
       /\ \A i \in 1..Len(before.e) :
            /\ after.e[i].k = before.e[i].k
            /\ before.e[i].k \notin MONETARY_FIELDS
               => SameOutside(before.e[i].v, after.e[i].v)
  ELSE after = before

\* C10: the conversion leaves the data it was handed as it was, and the
\* result has the same value under every key that is not a monetary field
\* name, at the same position, at any depth, also inside arrays of objects.
C10_InputKeptAndOtherKeysSame ==
  produced # Pending => (held = given /\ SameOutside(given, produced))

\* an array of objects with a monetary field was converted: the result
\* differs from the data, which is as it was
C10_Witness ==
  /\ given = Arr(<<Obj(<<KV("name", Str(<<"Consulting">>)), KV("net_price", Num(12345))>>),
                   SiblingObject>>)
  /\ produced # Pending
  /\ produced # given
  /\ held = given

(***************************************************************************)
(* Properties of the unit conversion inside a tool call                    *)
(***************************************************************************)
\* what the body of a request carries: the object under its one wrapping
\* key (invoice, client, product) or the body itself
Payload(body) ==
  IF Len(body.e) = 1 /\ body.e[1].k \in {"invoice", "client", "product"}
  THEN body.e[1].v ELSE body

\* C11: in a tool call the unit conversion is applied at most once, and
\* only to the value the request resolved to; the body of a request
\* carries the caller's arguments as supplied, that of create-invoice the
\* whole argument object, never a converted value.
C11_ConversionOnlyOfResponse ==
  /\ Len(conversions) <= 1
  /\ conversions # <<>>
     => (received # <<>> /\ received[1].ok /\ conversions[1] = received[1].data)
  /\ \A i \in 1..Len(sent) :
       sent[i].body # Undefined
       => /\ \A j \in 1..Len(Payload(sent[i].body).e) :
               Get(call.args, Payload(sent[i].body).e[j].k) = Payload(sent[i].body).e[j].v
          /\ call.name = "infakt_create_invoice"
             => sent[i].body = Obj(<<KV("invoice", call.args)>>)

\* a create-invoice call sent its line-item prices as given and converted
\* the response it got, once
C11_Witness ==
  /\ pc = "done"
  /\ call.name = "infakt_create_invoice"
  /\ Get(call.args, "services") = Arr(<<ServiceValid>>)
  /\ Len(sent) = 1
  /\ Len(received) = 1
  /\ Get(Get(sent[1].body, "invoice"), "services") = Arr(<<ServiceValid>>)
  /\ received[1].ok
  /\ conversions = <<received[1].data>>
  /\ outcome.kind = "response"

(***************************************************************************)
(* Properties of the shape of JSON responses                               *)
(***************************************************************************)
ConvertingTools ==
  {"infakt_create_invoice", "infakt_check_invoice_status", "infakt_list_invoices",
   "infakt_get_invoice", "infakt_update_invoice", "infakt_send_invoice_email",
   "infakt_mark_invoice_paid", "infakt_list_clients", "infakt_get_client",
   "infakt_create_client", "infakt_update_client", "infakt_get_vat_rates",
   "infakt_get_bank_accounts", "infakt_get_account_info"}

PassThroughTools ==
  {"infakt_list_products", "infakt_get_product", "infakt_create_product",
   "infakt_update_product", "infakt_list_costs", "infakt_get_cost"}

IsCalendarDate(text) ==
  /\ Len(text) = 10
  /\ text[5] = "-" /\ text[8] = "-"
  /\ \A i \in {1, 2, 3, 4, 6, 7, 9, 10} : text[i] \in Digits
  /\ LET year == 1000 * DigitVal(text[1]) + 100 * DigitVal(text[2])
                 + 10 * DigitVal(text[3]) + DigitVal(text[4])
         month == 10 * DigitVal(text[6]) + DigitVal(text[7])
         day == 10 * DigitVal(text[9]) + DigitVal(text[10])
         leap == year % 400 = 0 \/ (year % 4 = 0 /\ year % 100 # 0)
         length == <<31, IF leap THEN 29 ELSE 28, 31, 30, 31, 30, 31, 31, 30, 31, 30, 31>>
     IN month \in 1..12 /\ day >= 1 /\ day <= length[month]

\* C13: validateDateString accepts a value exactly when it is a string of
\* the form YYYY-MM-DD that names a real calendar date; 2024-02-30,
\* 2024-13-01 and 2023-02-29 fail, 2024-02-29 passes.
C13_DateAcceptedIffCalendarDate ==
  (verdict # Pending /\ subject.fn = "validateDateString")
  => /\ verdict = NoError
        <=> (subject.value.t = "string" /\ IsCalendarDate(subject.value.s))
     /\ subject.value \in {Str(DateText(2024, 2, 30)), Str(DateText(2024, 13, 1)),
                           Str(DateText(2023, 2, 29))}
        => verdict.cls = "ValidationError"
     /\ subject.value = Str(DateText(2024, 2, 29)) => verdict = NoError

\* 29 February 2024 was accepted
C13_Witness ==
  /\ subject = Subject("validateDateString", Str(DateText(2024, 2, 29)))
  /\ verdict = NoError

ListTools ==
  {"infakt_list_invoices", "infakt_list_clients", "infakt_list_products",
   "infakt_list_costs"}

\* offset is absent or a finite number >= 0, limit is absent or a finite
\* number above 0 and at most 100
PaginationAcceptable(args) ==
  /\ \/ ~HasKey(args, "offset")
     \/ (Get(args, "offset").t = "number" /\ Get(args, "offset").n >= 0)
  /\ \/ ~HasKey(args, "limit")
     \/ /\ Get(args, "limit").t = "number"
        /\ Get(args, "limit").n > 0
        /\ Get(args, "limit").n <= 100 * 1000

\* C14: the pagination check of a list handler passes exactly when offset
\* is absent or a finite number >= 0 and limit is absent or a finite number
\* with 0 < limit <= 100 (100 passes; 101 and 0 fail; a missing limit
\* passes); a limit above 100 is rejected, not clamped: a list request that
\* is sent carries the limit and the offset the caller gave.
C14_PaginationBounds ==
  (pc # "idle" /\ call.name \in ListTools)
  => /\ Steps[1].err = NoError <=> PaginationAcceptable(call.args)
     /\ ~PaginationAcceptable(call.args)
        => (sent = <<>> /\ pc = "done" /\ outcome = Thrown(Steps[1].err)
            /\ outcome.err.cls = "ValidationError"
            /\ outcome.err.field \in {<<"offset">>, <<"limit">>})
     /\ Get(call.args, "limit") \in {Num(101), Num(0)} => sent = <<>>
     /\ sent # <<>>
        => /\ Get(sent[1].params, "limit") = Get(call.args, "limit")
           /\ Get(sent[1].params, "offset") = Get(call.args, "offset")

\* a list-clients call with limit 100 was sent with limit 100
C14_Witness ==
  /\ pc = "awaiting"
  /\ call.name = "infakt_list_clients"
  /\ Get(call.args, "limit") = Num(100)
  /\ Len(sent) = 1
  /\ Get(sent[1].params, "limit") = Num(100)

PriceFields == {"net_price", "unit_net_price", "gross_price"}

\* a name that is a string and does not trim to nothing, a tax_symbol that
\* is a string or a number, prices that are finite numbers >= 0 where
\* present and one present at least, a quantity that is a finite number
\* above 0 where present
ServiceAcceptable(item) ==
  /\ item.t = "object"
  /\ Get(item, "name").t = "string"
  /\ \E i \in 1..Len(Get(item, "name").s) : Get(item, "name").s[i] # " "
  /\ Get(item, "tax_symbol").t \in {"string", "number", "NaN", "Infinity"}
  /\ \A field \in PriceFields :
       HasKey(item, field)
       => (Get(item, field).t = "number" /\ Get(item, field).n >= 0)
  /\ \E field \in PriceFields : HasKey(item, field)
  /\ HasKey(item, "quantity")
     => (Get(item, "quantity").t = "number" /\ Get(item, "quantity").n > 0)

\* C15: validateInvoiceService accepts a line item exactly when its name is
\* a non-empty string (one that does not trim to nothing), its tax_symbol is
\* a string or a number, each of net_price, unit_net_price and gross_price
\* that is present is a finite number >= 0, one of the three at least is
\* present, and quantity when present is a positive number.
C15_ServiceAcceptedIffWellFormed ==
  (verdict # Pending /\ subject.fn = "validateInvoiceService")
  => (verdict = NoError <=> ServiceAcceptable(subject.value))

\* an item with only gross_price set and a valid tax_symbol was accepted
C15_Witness ==
  /\ subject = Subject("validateInvoiceService",
                       Obj(<<KV("name", Str(<<"Dev">>)), KV("tax_symbol", Num(23)),
                             KV("gross_price", Num(12300))>>))
  /\ verdict = NoError

\* the handler rejects the arguments for a line item without any price
RejectedForMissingPrice ==
  /\ call.name \in {"infakt_create_invoice", "infakt_update_invoice"}
  /\ Rejecting
  /\ Rejection.cls = "ValidationError"
  /\ Rejection.message[Len(Rejection.message)] =
       "each service must have at least one of: net_price, unit_net_price, or gross_price"

\* C16: when create-invoice or update-invoice is given a services array
\* with a line item that has none of the three price fields, the validation
\* error that reaches the caller is attributed to the field 'services'
\* itself, not to the item or to a path inside the item.
C16_MissingPriceAttributedToServices ==
  (pc = "done" /\ RejectedForMissingPrice)
  => /\ outcome.kind = "error"
     /\ outcome.err.cls = "ValidationError"
     /\ outcome.err.field = <<"services">>

\* the leaves of a line item that are ill-formed
BadLeaves(item) ==
  {leaf \in {"name"} :
     ~(Get(item, leaf).t = "string"
       /\ \E i \in 1..Len(Get(item, leaf).s) : Get(item, leaf).s[i] # " ")}
  \cup {leaf \in {"tax_symbol"} :
          Get(item, leaf).t \notin {"string", "number", "NaN", "Infinity"}}
  \cup {leaf \in PriceFields :
          HasKey(item, leaf) /\ ~(Get(item, leaf).t = "number" /\ Get(item, leaf).n >= 0)}
  \cup {leaf \in {"quantity"} :
          HasKey(item, leaf) /\ ~(Get(item, leaf).t = "number" /\ Get(item, leaf).n > 0)}

\* C17: when the element at index i of a services array fails the item
\* validator, the error of validateArray carries the path services[i].<leaf>
\* of an offending leaf, or services[i] when the element itself is not an
\* object, with no path segment repeated.
C17_FullyQualifiedPath ==
  (/\ verdict # Pending
   /\ subject.fn = "validateArray"
   /\ subject.value.t = "array"
   /\ \E i \in 1..Len(subject.value.items) : ~ServiceAcceptable(subject.value.items[i]))
  => LET items == subject.value.items
         bad == {i \in 1..Len(items) : ~ServiceAcceptable(items[i])}
         first == CHOOSE i \in bad : \A j \in bad : i <= j
         path == <<"services", "[", ToString(first - 1), "]">>
     IN /\ verdict.cls = "ValidationError"
        /\ IF items[first].t # "object" THEN verdict.field = path
           ELSE IF BadLeaves(items[first]) # {}
           THEN \E leaf \in BadLeaves(items[first]) : verdict.field = path \o <<".", leaf>>
           ELSE TRUE

(***************************************************************************)
(* Properties of the query of a list request                               *)
(***************************************************************************)
\* for each list handler, its filter arguments and the key each becomes
FilterKeys(name) ==
  CASE name = "infakt_list_invoices" ->
         << <<"number", "number_eq">>,
            <<"client_company_name", "client_company_name_cont">>,
            <<"status", "status_eq">>,
            <<"invoice_date_from", "invoice_date_gteq">>,
            <<"invoice_date_to", "invoice_date_lteq">> >>
    [] name = "infakt_list_clients" ->
         << <<"company_name", "company_name_cont">>, <<"nip", "nip_eq">>,
            <<"email", "email_eq">> >>
    [] name = "infakt_list_products" -> << <<"name", "name_cont">> >>
    [] OTHER -> <<>>

QueryKeys == {"offset", "limit", "order", "fields"}

\* the query of the request carries the pagination and fields keys the
\* caller gave a value, and nothing else but the filter object
QueryAsGiven(query) ==
  /\ \A i \in 1..Len(query.e) : query.e[i].k \in QueryKeys \cup {"q"}
  /\ \A key \in QueryKeys :
       /\ HasKey(query, key) => Get(query, key) = Get(call.args, key)
       /\ Get(call.args, key) \in {Undefined, Null} => ~HasKey(query, key)

\* the filter object of the query has one key, with the suffix of the
\* resource, for each filter argument that counts as supplied, and no
\* other; there is no filter object when none counts
FiltersFor(query, supplied) ==
  LET pairs == FilterKeys(call.name)
      filters == Get(query, "q")
  IN /\ HasKey(query, "q") <=> \E i \in 1..Len(pairs) : pairs[i][1] \in supplied
     /\ HasKey(query, "q")
        => /\ filters.t = "object"
           /\ \A i \in 1..Len(pairs) :
                /\ HasKey(filters, pairs[i][2]) <=> pairs[i][1] \in supplied
                /\ HasKey(filters, pairs[i][2])
                   => Get(filters, pairs[i][2]) = Get(call.args, pairs[i][1])
           /\ \A j \in 1..Len(filters.e) :
                \E i \in 1..Len(pairs) : filters.e[j].k = pairs[i][2]
           /\ \A j, k \in 1..Len(filters.e) : filters.e[j].k = filters.e[k].k => j = k

\* C18 as stated: a list request carries a filter object with exactly one
\* key per filter argument supplied, with the suffix fixed by the resource,
\* and no filter object when none is supplied; absent pagination and fields
\* keys are omitted from the query.
C18_OneFilterPerArgumentSupplied ==
  (call.name \in ListTools /\ sent # <<>>)
  => /\ QueryAsGiven(sent[1].params)
     /\ FiltersFor(sent[1].params,
                   {key \in {"number", "client_company_name", "status",
                             "invoice_date_from", "invoice_date_to", "company_name",
                             "nip", "email", "name"} : HasKey(call.args, key)})

\* C18: a list request carries a filter object with exactly one key per
\* filter argument supplied with a truthy value (an empty string counts as
\* not supplied), with the suffix fixed by the resource, and no filter
\* object when there is none; absent pagination and fields keys are omitted
\* from the query.
C18_OneFilterPerTruthyArgument ==
  (call.name \in ListTools /\ sent # <<>>)
  => /\ QueryAsGiven(sent[1].params)
     /\ FiltersFor(sent[1].params,
                   {key \in {"number", "client_company_name", "status",
                             "invoice_date_from", "invoice_date_to", "company_name",
                             "nip", "email", "name"} : Truthy(Get(call.args, key))})

\* list-clients with nip '1234567890' alone sent nip_eq = '1234567890' and
\* nothing else
C18_Witness ==
  /\ call = [name |-> "infakt_list_clients",
             args |-> Obj(<<KV("nip", Str(<<"1234567890">>))>>)]
  /\ Len(sent) = 1
  /\ sent[1].params = Obj(<<KV("q", Obj(<<KV("nip_eq", Str(<<"1234567890">>))>>))>>)

(***************************************************************************)
(* Properties of createInvoice                                             *)
(***************************************************************************)
\* the arguments without one of them
Without(args, key) == Obj(SelectSeq(args.e, LAMBDA e : e.k # key))

\* the handler of a tool rejects these arguments
Rejects(name, args) ==
  LET steps == TOOL_HANDLERS(name, args)
  IN \E i \in 1..Len(steps) : steps[i].kind = "check" /\ steps[i].err # NoError

\* C20: create-invoice with status 'paid' issues its remote request only if
\* paid_date is present and is a calendar-valid YYYY-MM-DD string; with any
\* other status, or no status, paid_date is not required: the request is
\* issued exactly when it is for the same arguments without paid_date.
C20_PaidNeedsPaidDate ==
  (call.name = "infakt_create_invoice" /\ pc # "idle")
  => LET status == Get(call.args, "status")
         paid_date == Get(call.args, "paid_date")
     IN /\ (status = Str(<<"paid">>) /\ sent # <<>>)
           => /\ HasKey(call.args, "paid_date")
              /\ paid_date.t = "string"
              /\ IsCalendarDate(paid_date.s)
        /\ status # Str(<<"paid">>)
           => (sent # <<>>
               <=> ~Rejects(call.name, Without(call.args, "paid_date")))

\* create-invoice with status 'paid' and a calendar-valid paid_date issued
\* its request
C20_Witness ==
  /\ call.name = "infakt_create_invoice"
  /\ Get(call.args, "status") = Str(<<"paid">>)
  /\ Get(call.args, "paid_date") = DateValid
  /\ Len(sent) = 1
  /\ sent[1].method = "POST"

(***************************************************************************)
(* Tool calls running side by side                                         *)
(***************************************************************************)
MaxCalls == 2

\* the calls the dispatcher is handed side by side
ConcurrentCalls ==
  {[name |-> "infakt_get_invoice", args |-> Obj(<<KV("invoice_uuid", UuidValid)>>)],
   [name |-> "infakt_get_invoice", args |-> Obj(<<KV("invoice_uuid", UuidInvalid)>>)],
   [name |-> "infakt_list_clients", args |-> Obj(<<KV("nip", Str(<<"1234567890">>))>>)],
   [name |-> "infakt_delete_client", args |-> Obj(<<KV("client_id", Num(7))>>)],
   [name |-> "infakt_unknown", args |-> Obj(<<>>)]}

\* the replies tried for a request of theirs
ConcurrentReplies ==
  {Success(Obj(<<KV("id", Num(7)), KV("gross_price", Num(15184))>>)),
   Success(Str(<<>>)),
   Failure(AxiosError(TRUE, 404, Obj(<<KV("message", Str(<<"Not found">>))>>),
                      <<"Request failed with status code 404">>)),
   Failure(AxiosError(FALSE, 0, Undefined, <<"timeout of 30000ms exceeded">>))}

NotRunning ==
  [pc |-> "idle", call |-> NoCall, resume |-> 0, sent |-> <<>>, outcome |-> NoOutcome]

InitConcurrent ==
  /\ referenceHandlers = "converting"
  /\ NoCallYet /\ NoTranslation /\ NoConversion /\ NoMoney /\ NoValidation /\ NoStartup
  /\ NoConfig
  /\ running = [c \in 1..MaxCalls |-> NotRunning]
  /\ wire = [c \in 1..MaxCalls |-> <<>>]
  /\ channel = <<>>

\* a call after its handler has run up to its next await or to its end
After(r, state) ==
  [state EXCEPT !.pc = IF r.kind = "await" THEN "awaiting" ELSE "done",
                !.sent = IF r.kind = "await" THEN Append(state.sent, r.req) ELSE state.sent,
                !.resume = r.next,
                !.outcome = CatchInDispatcher(r).outcome]

\* a request of call c settles to the latest reply of the remote service,
\* whichever call it answers
AwaitedFromAnyCall(c, replies) ==
  LET answered == {d \in DOMAIN replies : replies[d] # <<>>}
      latest == CHOOSE d \in answered : \A e \in answered : e <= d
  IN replies[latest][Len(replies[latest])]

\* what `await this.client.get(...)` of call c settles to: the reply of the
\* remote service to the request of call c
Awaited(c, replies) == replies[c][Len(replies[c])]

\* the request handler of CallToolRequestSchema: the line it logs, and
\* handleToolCall(apiClient, name, args) up to its first await or its end
CallTool(c, name, args) ==
  /\ running[c].pc = "idle"
  /\ LET r == handleToolCall(name, args)
     IN /\ running' = [running EXCEPT
                         ![c] = After(r, [running[c] EXCEPT
                                            !.call = [name |-> name, args |-> args]])]
        /\ channel' = channel \o << <<"[inFakt MCP] Executing tool: ", name>> >>
                        \o CatchInDispatcherLog(r)
  /\ UNCHANGED <<wire, configVars, startupVars, callVars, translationVars, conversionVars,
                 moneyVars, validationVars>>

\* the remote service answers the request of call c
RemoteReplies(c, reply) ==
  /\ running[c].pc = "awaiting"
  /\ Len(wire[c]) < Len(running[c].sent)
  /\ wire' = [wire EXCEPT ![c] = Append(@, reply)]
  /\ UNCHANGED <<running, channel, configVars, startupVars, callVars, translationVars,
                 conversionVars, moneyVars, validationVars>>

\* the request of call c settles and its handler runs on
Resume(c) ==
  /\ running[c].pc = "awaiting"
  /\ Len(wire[c]) = Len(running[c].sent)
  /\ LET reply == Awaited(c, wire)
         settled == ApiClientSettle(reply)
         r == IF settled.kind = "throw"
              THEN [kind |-> "done", outcome |-> Thrown(settled.err), req |-> NoRequest,
                    next |-> running[c].resume, converts |-> <<>>]
              ELSE Exec(TOOL_HANDLERS(running[c].call.name, running[c].call.args),
                        running[c].resume, settled.data)
     IN /\ running' = [running EXCEPT ![c] = After(r, running[c])]
        /\ channel' = channel \o ApiClientSettleLog(reply) \o CatchInDispatcherLog(r)
  /\ UNCHANGED <<wire, configVars, startupVars, callVars, translationVars, conversionVars,
                 moneyVars, validationVars>>

NextConcurrent ==
  \/ \E c \in 1..MaxCalls : \E called \in ConcurrentCalls :
       CallTool(c, called.name, called.args)
  \/ \E c \in 1..MaxCalls : \E reply \in ConcurrentReplies : RemoteReplies(c, reply)
  \/ \E c \in 1..MaxCalls : Resume(c)

SpecConcurrent == InitConcurrent /\ [][NextConcurrent]_vars

\* a call on its own: the requests it sends and, given the replies to them,
\* its outcome
Alone(name, args, replies) ==
  LET first == handleToolCall(name, args)
      settled == ApiClientSettle(replies[1])
      second == IF settled.kind = "throw"
                THEN [kind |-> "done", outcome |-> Thrown(settled.err), req |-> NoRequest,
                      next |-> first.next, converts |-> <<>>]
                ELSE Exec(TOOL_HANDLERS(name, args), first.next, settled.data)
  IN IF first.kind = "done"
       THEN [sent |-> <<>>, outcome |-> CatchInDispatcher(first).outcome]
     ELSE IF replies = <<>>
       THEN [sent |-> <<first.req>>, outcome |-> NoOutcome]
     ELSE [sent |-> <<first.req>>, outcome |-> CatchInDispatcher(second).outcome]

\* C21: for any interleaving of tool calls running side by side, the
\* request each call sends and the outcome it returns are those of the call
\* on its own with its own arguments and the remote reply to its own
\* request.
C21_CallsIndependent ==
  \A c \in DOMAIN running :
    running[c].pc # "idle"
    => /\ running[c].sent = Alone(running[c].call.name, running[c].call.args, wire[c]).sent
       /\ running[c].pc = "done"
          => running[c].outcome
               = Alone(running[c].call.name, running[c].call.args, wire[c]).outcome

\* two calls were in flight at once and were answered differently: the
\* first failed, the second returned, and both are done
C21_Witness ==
  /\ running # <<>>
  /\ \A c \in DOMAIN running : running[c].pc = "done" /\ Len(wire[c]) = 1
  /\ wire[1] # wire[2]
  /\ running[1].outcome.kind = "error"
  /\ running[2].outcome.kind = "response"
  /\ Len(channel) = 3
  /\ channel[2] = <<"[inFakt MCP] Executing tool: ", "infakt_list_clients">>

(***************************************************************************)
(* Properties of the configuration                                         *)
(***************************************************************************)
\* the sandbox switch of the environment is on
SandboxOn == sandboxSwitch \in {Str(<<"true">>), Str(<<"1">>)}

\* C22: the base URL of the configuration loadConfig returns is the explicit
\* override URL whenever one is supplied, otherwise the sandbox endpoint
\* when the sandbox switch is on, otherwise the production endpoint; and it
\* is always a well-formed URL.
C22_BaseUrlSelection ==
  (startup \notin {"starting", "checked"} /\ returned # Pending /\ returned.thrown = NotThrown)
  => /\ Get(returned.config, "baseUrl")
          = (IF customBaseUrl # Undefined THEN customBaseUrl
             ELSE IF SandboxOn THEN SANDBOX ELSE PRODUCTION)
     /\ UrlParses(Get(returned.config, "baseUrl"))

(***************************************************************************)
(* Properties of the arguments of createInvoice                            *)
(***************************************************************************)
\* the statuses the tool declares for create-invoice
DeclaredStatuses == {Str(<<"draft">>), Str(<<"paid">>), Str(<<"printed">>)}

\* C23: create-invoice accepts a status only from the set {draft, paid,
\* printed}: a call with any other status value is rejected before a remote
\* request is issued.
C23_StatusFromDeclaredSet ==
  (call.name = "infakt_create_invoice" /\ HasKey(call.args, "status") /\ sent # <<>>)
  => Get(call.args, "status") \in DeclaredStatuses

\* the price fields a line item supplies
PricesSupplied(item) == {key \in PriceFields : HasKey(item, key)}

\* C24: in an invoice line item the price fields net_price, unit_net_price
\* and gross_price are mutually exclusive: create-invoice issues no request
\* for a line item that supplies more than one of them.
C24_PriceFieldsExclusive ==
  (call.name = "infakt_create_invoice" /\ sent # <<>>)
  => \A i \in 1..Len(Get(call.args, "services").items) :
       Cardinality(PricesSupplied(Get(call.args, "services").items[i])) <= 1

(***************************************************************************)
(* Properties of downloadInvoicePdf                                        *)
(***************************************************************************)
\* the value of a character of base64 text
Base64Value(ch) ==
  IF \E i \in 1..64 : Base64Alphabet[i] = ch
  THEN (CHOOSE i \in 1..64 : Base64Alphabet[i] = ch) - 1
  ELSE 0

RECURSIVE Base64Decode(_)
\* the bytes a base64 text decodes to
Base64Decode(text) ==
  IF Len(text) < 4 THEN <<>>
  ELSE LET first == Base64Value(text[1]) * 4 + Base64Value(text[2]) \div 16
           second == (Base64Value(text[2]) % 16) * 16 + Base64Value(text[3]) \div 4
           third == (Base64Value(text[3]) % 4) * 64 + Base64Value(text[4])
       IN (IF text[3] = "=" THEN <<first>>
           ELSE IF text[4] = "=" THEN <<first, second>>
           ELSE <<first, second, third>>)
          \o Base64Decode(SubSeq(text, 5, Len(text)))

\* C25: a successful download-invoice-pdf returns exactly two text blocks,
\* in this order: a size note, then the base64 encoding of exactly the bytes
\* the remote binary read returned (decoding the second block yields those
\* bytes); the unit conversion is applied to neither.
C25_PdfBlocks ==
  (call.name = "infakt_download_invoice_pdf" /\ outcome.kind = "response")
  => /\ Len(outcome.content) = 2
     /\ outcome.content[1]
          = <<"PDF downloaded successfully. Base64 encoded (",
              ToString(Len(outcome.content[2])),
              " characters). Use base64 decode to save the file.">>
     /\ Len(received) = 1
     /\ Base64Decode(outcome.content[2]) = received[1].data.bytes
     /\ Len(outcome.content[2]) = 4 * ((Len(received[1].data.bytes) + 2) \div 3)
     /\ \A i \in 1..Len(outcome.content[2]) :
          outcome.content[2][i] = "=" \/ \E j \in 1..64 : Base64Alphabet[j] = outcome.content[2][i]
     /\ conversions = <<>>

\* a download returned the blocks of a PDF whose length is not a multiple
\* of three, with bytes of every kind
C25_Witness ==
  /\ call.name = "infakt_download_invoice_pdf"
  /\ outcome.kind = "response"
  /\ Len(received) = 1
  /\ received[1].data = Bytes(<<37, 80, 255, 0>>)
  /\ outcome.content[2] = <<"J", "V", "D", "/", "A", "A", "=", "=">>

(***************************************************************************)
(* Properties of the order of startup                                      *)
(***************************************************************************)
\* the steps of main(), each with the step that may follow it
StartupOrder ==
  {<<"starting", "checked">>, <<"checked", "configured">>, <<"configured", "constructed">>,
   <<"constructed", "connecting">>, <<"connecting", "ready">>,
   <<"starting", "exited">>, <<"checked", "exited">>, <<"connecting", "exited">>}

\* the base URL loadConfig selects from the environment
SelectedBaseUrl ==
  IF SandboxOn THEN SANDBOX
  ELSE IF customBaseUrl # Undefined THEN customBaseUrl ELSE PRODUCTION

\* the well-formed URLs among those tried
WellFormedUrls == {PRODUCTION, SANDBOX, Str(<<"https", "://", "example.test", "/api">>)}

\* the credential is missing or shorter than 10 characters, or the base URL
\* selected is malformed
BadConfiguration ==
  \/ apiKey = Undefined
  \/ Len(apiKey.s) < 10
  \/ SelectedBaseUrl \notin WellFormedUrls

\* the connection is made only after every earlier step succeeded, and a
\* bad configuration has ended the process before it
ConnectsOnlyAfterEverything ==
  /\ startup \in {"starting", "checked", "configured", "constructed", "connecting", "ready",
                  "exited"}
  /\ transport # "none"
     => /\ ~SomeToolWithoutHandler
        /\ ~BadConfiguration
        /\ configInstance # Null
        /\ Get(configInstance, "baseUrl") = SelectedBaseUrl
  /\ startup \in {"configured", "constructed"}
     => ~SomeToolWithoutHandler /\ ~BadConfiguration /\ configInstance # Null
  /\ startup = "checked" => ~SomeToolWithoutHandler /\ configInstance = Null
  /\ (BadConfiguration /\ startup \notin {"starting", "checked"})
     => /\ startup = "exited"
        /\ exitCode = Num(1)
        /\ transport = "none"
        /\ configInstance = Null
  /\ startup = "exited" <=> exitCode = Num(1)
  /\ sent = <<>>

C27_TranslatedAndLoggedOnce ==
  (Len(received) = 1 /\ ~received[1].ok)
  => /\ pc = "done"
     /\ outcome.kind = "error"
     /\ IsMcpError(outcome.err)
     /\ outcome.err = handleApiError(received[1].error)
     /\ Len(diagnostics) = 1
     /\ diagnostics[1] = <<"InfaktAPI Error:">> \o extractErrorMessage(received[1].error)
     /\ Len(sent) = 1

\* a request answered 422 ended in an invalid-params error with one line
\* on the diagnostic channel
C27_Witness ==
  /\ Len(received) = 1
  /\ ~received[1].ok
  /\ received[1].error.status = 422
  /\ outcome.kind = "error"
  /\ outcome.err.code = "InvalidParams"
  /\ Len(diagnostics) = 1

(***************************************************************************)
(* config.ts: the configuration singleton                                  *)
(***************************************************************************)
InitConfig ==
  /\ referenceHandlers = "converting"
  /\ NoCallYet /\ NoTranslation /\ NoConversion /\ NoMoney /\ NoValidation
  /\ NoConcurrency
  /\ declared = <<>> /\ registry = <<>>
  /\ startup = "idle" /\ transport = "none" /\ exitCode = Undefined /\ startupLog = <<>>
  /\ apiKey \in ApiKeyChoices
  /\ sandboxSwitch \in SandboxChoices
  /\ customBaseUrl \in BaseUrlChoices
  /\ configInstance = Null
  /\ returned = Pending
  /\ firstLoaded = Pending

\* the environment variables loadConfig reads
Environment == <<apiKey, sandboxSwitch, customBaseUrl>>

\* a caller calls getConfig()
GetConfig ==
  /\ LET config == getConfig(configInstance, apiKey, sandboxSwitch, customBaseUrl)
     IN /\ configInstance' = config.instance
        /\ returned' = [thrown |-> config.thrown, config |-> config.config,
                        cached |-> configInstance # Null, env |-> Environment]
        /\ firstLoaded' = IF firstLoaded = Pending /\ config.thrown = NotThrown
                          THEN config.config ELSE firstLoaded
  /\ UNCHANGED <<apiKey, sandboxSwitch, customBaseUrl, declared, registry, startup, transport,
                 exitCode, startupLog, concurrentVars, callVars, translationVars,
                 conversionVars, moneyVars, validationVars>>

\* a caller calls resetConfig()
ResetConfig ==
  /\ configInstance' = Null
  /\ returned' = Pending
  /\ firstLoaded' = Pending
  /\ UNCHANGED <<apiKey, sandboxSwitch, customBaseUrl, declared, registry, startup, transport,
                 exitCode, startupLog, concurrentVars, callVars, translationVars,
                 conversionVars, moneyVars, validationVars>>

\* the environment of the process changes
SetEnvironment ==
  /\ \E key \in ApiKeyChoices, sandbox \in SandboxChoices, url \in BaseUrlChoices :
       /\ <<key, sandbox, url>> # Environment
       /\ apiKey' = key
       /\ sandboxSwitch' = sandbox
       /\ customBaseUrl' = url
  /\ UNCHANGED <<configInstance, returned, firstLoaded, declared, registry, startup, transport,
                 exitCode, startupLog, concurrentVars, callVars, translationVars,
                 conversionVars, moneyVars, validationVars>>

NextConfig == GetConfig \/ ResetConfig \/ SetEnvironment

SpecConfig == InitConfig /\ [][NextConfig]_vars

\* since the last resetConfig, what getConfig returned last is what it
\* returned when it first succeeded; a getConfig that failed cached nothing
CachedUntilReset ==
  /\ firstLoaded # Pending
     => /\ returned # Pending
        /\ returned.thrown = NotThrown
        /\ returned.config = firstLoaded
        /\ configInstance = firstLoaded
  /\ (returned # Pending /\ returned.thrown # NotThrown)
     => configInstance = Null /\ firstLoaded = Pending

\* a getConfig with nothing cached returns or throws what loadConfig does
\* for the environment as it is then
LoadsWhenNothingCached ==
  (configInstance = Null /\ returned' # Pending /\ returned' # returned)
  => /\ ~returned'.cached
     /\ returned'.thrown = loadConfig(apiKey, sandboxSwitch, customBaseUrl).thrown
     /\ returned'.config = loadConfig(apiKey, sandboxSwitch, customBaseUrl).config

\* C28: after getConfig has succeeded once, every later getConfig returns
\* the same configuration whatever changes are made to the environment in
\* between, until resetConfig is called; a getConfig that fails leaves
\* nothing cached, so the next getConfig loads from the environment again.
C28_CachedUntilReset == []CachedUntilReset /\ [][LoadsWhenNothingCached]_vars

\* getConfig answered from the cache in an environment that would no
\* longer load that configuration
C28_Witness ==
  /\ returned # Pending
  /\ returned.thrown = NotThrown
  /\ returned.cached
  /\ returned.env = Environment
  /\ loadConfig(apiKey, sandboxSwitch, customBaseUrl).config # returned.config

(***************************************************************************)
(* Properties of falsy filter arguments                                    *)
(***************************************************************************)
\* the filter arguments of the call under way that were given a falsy value
FalsyFilters ==
  {i \in 1..Len(FilterKeys(call.name)) :
     /\ HasKey(call.args, FilterKeys(call.name)[i][1])
     /\ ~Truthy(Get(call.args, FilterKeys(call.name)[i][1]))}

\* C29: in every list handler a filter argument whose value is falsy (the
\* empty string, 0, false, null) is treated as absent: the handler rejects
\* or requests exactly as it does without the argument, no validation error
\* is raised for it and no filter key is sent for it; a rejection that is
\* not of the pagination is of a filter argument with a non-falsy value.
C29_FalsyFilterIsAbsent ==
  (call.name \in ListTools /\ pc # "idle")
  => /\ \A i \in FalsyFilters :
          LET pair == FilterKeys(call.name)[i]
          IN /\ handleToolCall(call.name, call.args)
                  = handleToolCall(call.name, Without(call.args, pair[1]))
             /\ Rejecting => Rejection.field # <<pair[1]>>
             /\ (sent # <<>> /\ HasKey(sent[1].params, "q"))
                => ~HasKey(Get(sent[1].params, "q"), pair[2])
     /\ Rejecting
        => \/ Rejection.field \in {<<"offset">>, <<"limit">>}
           \/ \E i \in 1..Len(FilterKeys(call.name)) :
                /\ Rejection.field = <<FilterKeys(call.name)[i][1]>>
                /\ Truthy(Get(call.args, FilterKeys(call.name)[i][1]))

\* list-clients with nip 0 and a company name sent the substring filter
\* alone
C29_Witness ==
  /\ call = [name |-> "infakt_list_clients",
             args |-> Obj(<<KV("company_name", Acme), KV("nip", Num(0))>>)]
  /\ Len(sent) = 1
  /\ sent[1].params = Obj(<<KV("q", Obj(<<KV("company_name_cont", Acme)>>))>>)

(***************************************************************************)
(* Properties of the update handlers                                       *)
(***************************************************************************)
\* for each update handler: the identifier argument, the key its request
\* body is wrapped in, and the head of its path
UpdateTools ==
  {<<"infakt_update_invoice", "invoice_uuid", "invoice", "/invoices/">>,
   <<"infakt_update_client", "client_id", "client", "/clients/">>,
   <<"infakt_update_product", "product_id", "product", "/products/">>}

====
